---- MODULE Spec2Model ----
(***************************************************************************)
(* Sparebank1 Pengerobot: the sync coordinator (coordinator.py), the API   *)
(* client (api.py), the service handlers and the set-up (__init__.py), the *)
(* amount validator (utils.py) and the balance entities (sensor.py).       *)
(*                                                                         *)
(* The coordinator runs on one asyncio event loop: code between two awaits *)
(* is atomic, so every action below is the code from one suspension point  *)
(* (an HTTP request awaiting its response, a host call awaiting its        *)
(* return) to the next.                                                    *)
(*                                                                         *)
(* Optional values (Python None / a value) are sequences of length 0 / 1.  *)
(* Text is a sequence of tokens: the literal pieces of the f-string of     *)
(* api.py:125 are one token each, header and body text one token per       *)
(* character or per literal piece.                                         *)
(***************************************************************************)
EXTENDS Integers, Sequences, FiniteSets, TLC

\* ------------------------------------------------------------------ bounds
MaxTime == 2          \* the clock runs 0..MaxTime (seconds)
MaxTransfers == 1     \* transfers the bank accepts in one behaviour
MaxRefreshes == 2     \* times the OAuth session's token is replaced

\* ------------------------------------------------------- program constants
DefaultUpdateInterval == 3600    \* timedelta(hours=1), coordinator.py:31
DefaultBackoffSeconds == 3600    \* coordinator.py:262 and :264
DefaultMaxAmount == 200          \* DEFAULT_MAX_AMOUNT, const.py:59
RateLimitStatus == 429           \* api.py:122
MaxStalenessSeconds == 10800     \* timedelta(hours=3), sensor.py:108
ErrorStatusFloor == 400          \* api.py:102

None == <<>>
Some(x) == <<x>>
IsNone(o) == o = <<>>
IsSome(o) == o # <<>>
Val(o) == o[1]

\* ------------------------------------------------------------------- text
Digits == {"0", "1", "2", "3", "4", "5", "6", "7", "8", "9"}

DigitVal(d) ==
  CASE d = "0" -> 0 [] d = "1" -> 1 [] d = "2" -> 2 [] d = "3" -> 3
    [] d = "4" -> 4 [] d = "5" -> 5 [] d = "6" -> 6 [] d = "7" -> 7
    [] d = "8" -> 8 [] d = "9" -> 9

\* int(s) for a string of decimal digits
RECURSIVE IntOf(_)
IntOf(s) ==
  IF s = <<>> THEN 0
  ELSE 10 * IntOf(SubSeq(s, 1, Len(s) - 1)) + DigitVal(s[Len(s)])

\* resp.headers.get("Retry-After", "3600")
HeaderDefault == <<"3", "6", "0", "0">>
RetryAfterHeader(resp) ==
  IF IsSome(resp.retry_after) THEN Val(resp.retry_after) ELSE HeaderDefault

\* f"Rate limit exceeded. Retry after {retry_after} seconds: {error_text}"
RateLimitMessage(retry_after, error_text) ==
  <<"Rate limit exceeded. ", "Retry after ">> \o retry_after
    \o <<" seconds", ": ">> \o error_text

\* The end of the greedy digit run that starts at position i (i - 1 when
\* there is no digit at i).
RECURSIVE DigitRunEnd(_, _)
DigitRunEnd(msg, i) ==
  IF i <= Len(msg) /\ msg[i] \in Digits THEN DigitRunEnd(msg, i + 1) ELSE i - 1

\* Whether r'Retry after (\d+) seconds' matches msg starting at token i.
MatchesAt(msg, i) ==
  /\ msg[i] = "Retry after "
  /\ DigitRunEnd(msg, i + 1) >= i + 1
  /\ DigitRunEnd(msg, i + 1) + 1 <= Len(msg)
  /\ msg[DigitRunEnd(msg, i + 1) + 1] = " seconds"

\* re.search: the leftmost match; group(1) of it.
MatchPositions(msg) == {i \in 1..Len(msg) : MatchesAt(msg, i)}
FirstMatch(msg) == CHOOSE i \in MatchPositions(msg) :
                     \A j \in MatchPositions(msg) : i <= j
MatchGroup(msg) ==
  SubSeq(msg, FirstMatch(msg) + 1, DigitRunEnd(msg, FirstMatch(msg) + 1))

\* int(match.group(1)) if match else 3600
BackoffSeconds(msg) ==
  IF MatchPositions(msg) # {} THEN IntOf(MatchGroup(msg))
  ELSE DefaultBackoffSeconds

\* ------------------------------------------------------------- API client
\* Exceptions: Sparebank1RateLimitError, Sparebank1APIError, or any other
\* exception class ("Other": a token-provider failure in _auth_headers, a
\* timeout, a body that is not JSON on a 2xx answer).
Exc(kind, message, errors, http_code) ==
  [kind |-> kind, message |-> message, errors |-> errors, http_code |-> http_code]

\* What the upstream (or the transport) answers to one request.
HttpResponse(status, retry_after, text, errors, fault, json) ==
  [status |-> status, retry_after |-> retry_after, text |-> text,
   errors |-> errors, fault |-> fault, json |-> json]

EchoText == <<"Retry after ", "1", " seconds">>

\* The answers the environment may give; json is the body of a 2xx answer.
\* A 429 comes without a Retry-After header, with a number of seconds, or
\* with a value that is no number (an HTTP date), and its body may itself
\* speak of retrying.
OkResponse(json) == HttpResponse(200, None, <<>>, <<>>, "none", json)
RateLimitResponses ==
  {HttpResponse(RateLimitStatus, None, <<>>, <<>>, "none", "body"),
   HttpResponse(RateLimitStatus, Some(<<"2">>), <<>>, <<>>, "none", "body"),
   HttpResponse(RateLimitStatus, Some(<<"x">>), <<>>, <<>>, "none", "body"),
   HttpResponse(RateLimitStatus, Some(<<"x">>), EchoText, <<>>, "none", "body")}
ServerError == HttpResponse(500, None, <<>>, <<"E1">>, "none", "body")
NetworkFault == HttpResponse(0, None, <<>>, <<>>, "network", "body")
OtherFault == HttpResponse(0, None, <<>>, <<>>, "other", "body")

AccountsResponses(json) ==
  {OkResponse(json), ServerError, NetworkFault, OtherFault} \cup RateLimitResponses
BalanceResponses(json) ==
  {OkResponse(json), HttpResponse(RateLimitStatus, None, <<>>, <<>>, "none", "body"),
   OtherFault}
\* The answers to a balance request, the 200 whose body has no
\* accountBalance among them.
BalanceResponsesWithGaps(json) == BalanceResponses(json) \cup {OkResponse(None)}
TransferResponses(json) ==
  {OkResponse(json), HttpResponse(RateLimitStatus, None, <<>>, <<>>, "none", "body"),
   ServerError, NetworkFault, OtherFault}

\* Mutant: a 429 raised as a generic API error.
RequestWithoutRateLimit(resp) ==
  IF resp.fault = "other"
    THEN [ok |-> FALSE, exc |-> Exc("Other", <<"fault">>, <<>>, None)]
  ELSE IF resp.fault = "network"
    THEN [ok |-> FALSE, exc |-> Exc("API", <<"Network error: ">>, <<>>, None)]
  ELSE IF resp.status >= ErrorStatusFloor
    THEN [ok |-> FALSE,
          exc |-> Exc("API", <<"failed - HTTP ">> \o resp.errors \o resp.text,
                      resp.errors, Some(resp.status))]
  ELSE [ok |-> TRUE, exc |-> Exc("none", <<>>, <<>>, None)]

\* Sparebank1Client._request: the parsed body, or the exception raised.
Request(resp) ==
  IF resp.fault = "other"
    THEN [ok |-> FALSE, exc |-> Exc("Other", <<"fault">>, <<>>, None)]
  ELSE IF resp.fault = "network"
    THEN [ok |-> FALSE, exc |-> Exc("API", <<"Network error: ">>, <<>>, None)]
  ELSE IF resp.status >= ErrorStatusFloor
    THEN IF resp.status = RateLimitStatus
           THEN [ok |-> FALSE,
                 exc |-> Exc("RateLimit",
                             RateLimitMessage(RetryAfterHeader(resp), resp.text),
                             resp.errors, Some(resp.status))]
           ELSE [ok |-> FALSE,
                 exc |-> Exc("API", <<"failed - HTTP ">> \o resp.errors \o resp.text,
                             resp.errors, Some(resp.status))]
  ELSE [ok |-> TRUE, exc |-> Exc("none", <<>>, <<>>, None)]

\* The answers to a request of the client called on its own: success, a
\* 429 with and without structured errors, other statuses of 400 and more
\* with and without structured errors, and the two faults.
ClientResponses ==
  {OkResponse("parsed"),
   HttpResponse(RateLimitStatus, None, <<>>, <<>>, "none", "body"),
   HttpResponse(RateLimitStatus, Some(<<"2">>), <<>>, <<"E1">>, "none", "body"),
   ServerError,
   HttpResponse(404, None, <<"x">>, <<>>, "none", "body"),
   NetworkFault, OtherFault}

\* What async_ensure_token_valid does when awaited: it raises, or it
\* returns with the session's token still valid or replaced by a new one;
\* it returns the token dict or (Home Assistant 2025.7) None.
ProviderOutcomes ==
  {[raises |-> TRUE, refreshed |-> FALSE, dict |-> FALSE]}
    \cup {[raises |-> FALSE, refreshed |-> r, dict |-> d] : r \in BOOLEAN, d \in BOOLEAN}

\* Mutant: the bearer of the first request kept for the later ones.
AuthHeadersCached(token_dict, session_token) ==
  [Authorization |-> <<"Bearer ", 0>>, Accept |-> "v1+json"]

\* _auth_headers (api.py:69-90): token_dict is what the provider returned,
\* session_token the access token of oauth_session.token after the call.
AuthHeaders(token_dict, session_token) ==
  [Authorization |-> <<"Bearer ", IF IsNone(token_dict) THEN session_token
                                  ELSE Val(token_dict)>>,
   Accept |-> "v1+json"]

\* The headers a public method passes to _request (api.py:186-188,
\* 227-229; get_accounts passes none), and headers.update of line 97.
CallerHeaders(op) ==
  IF op = "get_accounts" THEN <<>> ELSE [ContentType |-> "v1+json"]
MergeHeaders(headers, extra) == IF extra = <<>> THEN headers ELSE extra @@ headers

\* Sparebank1RateLimitError is a subclass of Sparebank1APIError.
IsAPIError(exc) == exc.kind \in {"API", "RateLimit"}

\* --------------------------------------------------------------- validator
\* Amounts are decimal.Decimal values: the text of a service call is a
\* sequence of characters, a parsed amount is a number of thousandths
\* (the texts of AmountInputs have at most MaxDecimals decimals) and an
\* amount rounded to two decimals a number of hundredths.
MaxDecimals == 3

RECURSIVE Pow10(_)
Pow10(n) == IF n = 0 THEN 1 ELSE 10 * Pow10(n - 1)

\* Decimal(str(amount_str)) for plain decimal notation: an optional sign,
\* digits with at most one point and at least one digit. None stands for
\* decimal.InvalidOperation.
Unsigned(s) == IF s # <<>> /\ s[1] \in {"-", "+"} THEN SubSeq(s, 2, Len(s)) ELSE s
PointPositions(b) == {i \in 1..Len(b) : b[i] = "."}
PointAt(b) == IF PointPositions(b) = {} THEN Len(b) + 1
              ELSE CHOOSE i \in PointPositions(b) : TRUE
IsDecimalText(b) ==
  /\ \A i \in 1..Len(b) : b[i] \in Digits \cup {"."}
  /\ Cardinality(PointPositions(b)) <= 1
  /\ \E i \in 1..Len(b) : b[i] \in Digits
ParseDecimal(s) ==
  LET b == Unsigned(s)
      whole == SubSeq(b, 1, PointAt(b) - 1)
      frac == SubSeq(b, PointAt(b) + 1, Len(b))
      magnitude == IntOf(whole) * Pow10(MaxDecimals)
                     + IntOf(frac) * Pow10(MaxDecimals - Len(frac))
  IN IF ~IsDecimalText(b) THEN None
     ELSE IF s[1] = "-" THEN Some(0 - magnitude) ELSE Some(magnitude)

\* The quotient n / d rounded to an integer, ties to the even neighbour:
\* Decimal.quantize under the default context (ROUND_HALF_EVEN), for
\* n >= 0 and d > 0.
RoundHalfEven(n, d) ==
  LET q == n \div d
      r == n % d
  IN IF 2 * r < d THEN q
     ELSE IF 2 * r > d THEN q + 1
     ELSE IF q % 2 = 0 THEN q ELSE q + 1

\* str() of a natural number and of a Decimal with two decimals.
RECURSIVE NatText(_)
NatText(n) ==
  LET d == <<"0", "1", "2", "3", "4", "5", "6", "7", "8", "9">>
  IN IF n < 10 THEN <<d[n + 1]>> ELSE NatText(n \div 10) \o <<d[(n % 10) + 1]>>
DecimalText(hundredths) ==
  NatText(hundredths \div 100) \o <<".">>
    \o NatText((hundredths % 100) \div 10) \o NatText(hundredths % 10)

\* The tuple a validation function returns.
Validation(ok, amount, error) == [ok |-> ok, amount |-> amount, error |-> error]

\* utils.validate_amount; max_amount is None or a whole number.
ValidateAmount(amount_str, max_amount) ==
  LET parsed == ParseDecimal(amount_str)
  IN IF IsNone(parsed)
       THEN Validation(FALSE, None, <<"Invalid amount format">>)
     ELSE IF Val(parsed) <= 0
       THEN Validation(FALSE, None, <<"Amount must be positive">>)
     ELSE IF IsSome(max_amount)
             /\ Val(parsed) > Val(max_amount) * Pow10(MaxDecimals)
       THEN Validation(FALSE, None,
                       <<"Amount cannot exceed ">> \o NatText(Val(max_amount)))
     ELSE Validation(TRUE,
                     Some(RoundHalfEven(Val(parsed), Pow10(MaxDecimals - 2))),
                     <<>>)

\* const.CURRENCY_RATES, in thousandths.
CurrencyRates ==
  [NOK |-> 1000, SEK |-> 1000, DKK |-> 1000, USD |-> 100, EUR |-> 83, GBP |-> 71]

ConvertCurrencyIdentityFirst(amount, from_currency, to_currency) ==
  IF from_currency = to_currency
    THEN [raises |-> FALSE, value |-> amount, message |-> <<>>]
  ELSE IF from_currency \notin DOMAIN CurrencyRates
    THEN [raises |-> TRUE, value |-> 0,
          message |-> <<"Unsupported source currency: ", from_currency>>]
  ELSE IF to_currency \notin DOMAIN CurrencyRates
    THEN [raises |-> TRUE, value |-> 0,
          message |-> <<"Unsupported target currency: ", to_currency>>]
  ELSE [raises |-> FALSE,
        value |-> RoundHalfEven(amount * CurrencyRates[to_currency],
                                CurrencyRates[from_currency]),
        message |-> <<>>]

\* utils.convert_currency on hundredths: the converted amount, or the
\* ValueError of an unsupported currency. The quotient by the source rate
\* and the product with the target rate carry 28 digits, which leaves the
\* hundredths of these amounts what exact arithmetic gives; the one rounding
\* is the final quantize.
ConvertCurrency(amount, from_currency, to_currency) ==
  IF from_currency \notin DOMAIN CurrencyRates
    THEN [raises |-> TRUE, value |-> 0,
          message |-> <<"Unsupported source currency: ", from_currency>>]
  ELSE IF to_currency \notin DOMAIN CurrencyRates
    THEN [raises |-> TRUE, value |-> 0,
          message |-> <<"Unsupported target currency: ", to_currency>>]
  ELSE IF from_currency = to_currency
    THEN [raises |-> FALSE, value |-> amount, message |-> <<>>]
  ELSE [raises |-> FALSE,
        value |-> RoundHalfEven(amount * CurrencyRates[to_currency],
                                CurrencyRates[from_currency]),
        message |-> <<>>]

\* The message of lines 129-133.
LimitMessage(amount, transfer_currency, converted, default_currency, max_amount) ==
  <<"Transfer amount of ">> \o DecimalText(amount) \o <<" ", transfer_currency>>
    \o <<" (equivalent to ">> \o DecimalText(converted)
    \o <<" ", default_currency, ") exceeds maximum allowed amount of ">>
    \o NatText(max_amount) \o <<" ", default_currency>>

\* Mutant: the cap compared with the amount in the transfer currency.
ValidateAmountUnconverted(amount_str, transfer_currency, device_default_currency, max_amount) ==
  LET basic == ValidateAmount(amount_str, None)
  IN IF ~basic.ok THEN basic
     ELSE IF Val(basic.amount) > max_amount * 100
       THEN Validation(FALSE, None,
                       LimitMessage(Val(basic.amount), transfer_currency,
                                    Val(basic.amount), device_default_currency,
                                    max_amount))
     ELSE Validation(TRUE, basic.amount, <<>>)

\* utils.validate_amount_with_currency_conversion.
ValidateAmountWithCurrencyConversion(amount_str, transfer_currency, device_default_currency, max_amount) ==
  LET basic == ValidateAmount(amount_str, None)
      converted == ConvertCurrency(Val(basic.amount), transfer_currency,
                                   device_default_currency)
  IN IF ~basic.ok THEN basic
     ELSE IF converted.raises THEN Validation(FALSE, None, converted.message)
     ELSE IF converted.value > max_amount * 100
       THEN Validation(FALSE, None,
                       LimitMessage(Val(basic.amount), transfer_currency,
                                    converted.value, device_default_currency,
                                    max_amount))
     ELSE Validation(TRUE, basic.amount, <<>>)

\* ---------------------------------------------------------------- upstream
\* An account record of the list: accountNumber (Absent when the record has
\* none), creditCardAccountID, type, and the numeric balance that comes with
\* the record, if any; accountId and AccountId are the generic identifiers
\* some records carry.
Absent == "absent"
Account(no, card, type, balance) ==
  [accountNumber |-> no, creditCardAccountID |-> card, type |-> type,
   balance |-> balance, accountId |-> None, AccountId |-> None]

\* The account list the bank reports: two debit accounts without an inline
\* balance and a credit card whose balance comes with the list.
UpstreamAccounts ==
  << Account("A1", None, "ACCOUNT", None), Account("A2", None, "ACCOUNT", None),
     Account("K1", Some("C1"), "CREDITCARD", Some(7)) >>

\* Other lists a bank may report: a debit account whose balance comes with
\* the list, a credit card without a numeric balance, and a credit card
\* without an accountNumber.
InlineDebitAccounts ==
  << Account("A1", None, "ACCOUNT", Some(5)), Account("A2", None, "ACCOUNT", None) >>
CardWithoutBalance ==
  << Account("K1", Some("C1"), "CREDITCARD", None), Account("A1", None, "ACCOUNT", None) >>
CardWithoutNumber ==
  << Account(Absent, Some("C9"), "CREDITCARD", Some(3)),
     Account("A1", None, "ACCOUNT", None), Account("A2", None, "ACCOUNT", None) >>
\* A list whose records are identified in the four ways sensor.py knows: by
\* accountNumber, by accountId, by AccountId, and by nothing at all.
MixedIdentifiers ==
  << Account("A1", None, "ACCOUNT", None),
     [Account(Absent, None, "ACCOUNT", Some(4)) EXCEPT !.accountId = Some("G1")],
     [Account(Absent, None, "ACCOUNT", Some(6)) EXCEPT !.AccountId = Some("G2")],
     Account(Absent, None, "ACCOUNT", Some(2)) >>
BankLists ==
  {UpstreamAccounts, InlineDebitAccounts, CardWithoutBalance, CardWithoutNumber,
   MixedIdentifiers}

\* The selections of a config entry: entry.options and entry.data, each
\* with or without a selected_accounts list.
Entry(options, data) == [options |-> options, data |-> data]
DefaultEntry == Entry(None, None)
Entries ==
  {DefaultEntry, Entry(None, Some({"A2"})), Entry(Some({}), Some({"A2"})),
   Entry(Some({"A1", "C9"}), Some({"A2"}))}

\* str() of a number: a string is not the number it spells.
StrOf(n) == <<"str", n>>
DebitAccounts == {"A1", "A2"}
TransferResults == {"p1", "p2"}

\* ------------------------------------------------------------------- state
VARIABLES
  now,                       \* datetime.utcnow(), in seconds
  injected,                  \* the client object assigned to the coordinator
                             \* after construction, if any (fixed)
  hass,                      \* hass.data[DOMAIN], the registered services and
                             \* the state of each config entry
  bank,                      \* the account list the bank reports (fixed)
  entry,                     \* the config entry's selections (fixed)
  http,                      \* the API client: the operation it runs
  sensors,                   \* the balance entities of the sensor platform
  oauth_session,             \* Sparebank1Coordinator.oauth_session
  client,                    \* Sparebank1Coordinator.client
  rate_limit_backoff_until,  \* Sparebank1Coordinator._rate_limit_backoff_until
  update_interval,           \* DataUpdateCoordinator.update_interval
  data,                      \* DataUpdateCoordinator.data: the snapshot
  entryState,                \* "setup": first refresh pending or running;
                             \* "not_ready": set-up failed, to be retried;
                             \* "loaded": coordinator stored in hass.data
  poll,                      \* the running _async_update_data, if any
  xfer,                      \* the running transfer call, if any
  upstream,                  \* transfers the bank has accepted
  quietUntil,                \* end of the latest window "Retry-After N after
                             \* a 429 to the accounts fetch" (history)
  last                       \* what the last step did (history)

vars == <<now, injected, hass, bank, entry, http, sensors, oauth_session, client, rate_limit_backoff_until,
          update_interval, data, entryState, poll, xfer, upstream, quietUntil,
          last>>

\* An HTTP request on the wire.
HttpRequest(kind, by) == [kind |-> kind, by |-> by]

\* The record of a step: the action, the request it issued, the answer it
\* consumed, the result of the poll it ended ("none" when it ended none),
\* and, when it ended a transfer call, the call's arguments, what it
\* returned or raised, what the client's transfer call had returned or
\* raised, the targeted refreshes the call started (their account lists),
\* whether the targeted refresh raised, and the full refreshes requested.
\* failed: the account numbers whose balance request failed in the
\* get_account_balances call the step belongs to. call: the service call
\* that arrived in the step; submitted: the amount and currency the handler
\* passed to the coordinator; outputs: what the handler that ended in the
\* step fired, raised or returned.
NoEvent ==
  [act |-> "Init", sent |-> None, resp |-> None, poll |-> "none",
   ended |-> FALSE, kind |-> "none", from |-> "none", to |-> "none",
   returned |-> None, raised |-> None, clientResult |-> None,
   clientExc |-> None, targeted |-> <<>>, refreshRaised |-> FALSE,
   fullRequests |-> 0, failed |-> {}, call |-> None, submitted |-> None,
   outputs |-> <<>>]

Step(act, sent, resp) == [NoEvent EXCEPT !.act = act, !.sent = sent, !.resp = resp]
PollStep(act, resp, result) == [Step(act, None, resp) EXCEPT !.poll = result]
Answer(resp) == Some([resp EXCEPT !.json = "body"])

IdlePoll ==
  [pc |-> "idle", accounts |-> <<>>, numbers |-> <<>>, idx |-> 0, balances |-> <<>>]

\* The API client at rest. token is the access token of the OAuth session
\* (a version number); of the operation that runs or ran last: the account
\* numbers asked for, the calls of async_ensure_token_valid made, the token
\* valid at the return of each (history), the headers of the requests
\* sent (history), the balances stored and the outcome.
IdleHttp ==
  [pc |-> "idle", op |-> "none", numbers |-> <<>>, idx |-> 0, token |-> 0,
   calls |-> 0, acquired |-> <<>>, wire |-> <<>>, results |-> <<>>,
   outcome |-> None]

\* What a public method of the client returned or raised.
Outcome(ok, value, exc) == [ok |-> ok, value |-> value, exc |-> exc]

IdleXfer ==
  [pc |-> "idle", kind |-> "none", from |-> "none", to |-> "none",
   numbers |-> <<>>, idx |-> 0, balances |-> <<>>, clientResult |-> None,
   targeted |-> <<>>, refreshRaised |-> FALSE, fullRequests |-> 0]

\* Sparebank1Coordinator.__init__; the client attributes are public, and a
\* client object may be assigned to them before the first call (the early
\* return of _ensure_client_initialized serves that case).
\* The config entries of the integration and the two services
\* (SERVICE_TRANSFER_DEBIT, SERVICE_TRANSFER_CREDITCARD). After async_setup
\* (__init__.py:123-126) the registry is empty, no service is registered and
\* no entry has been set up; hass.services counts the registrations of a
\* service that have not been removed.
EntryIds == {"e1", "e2", "e3"}
Services == {"transfer_debit", "transfer_creditcard"}

InitWith(accounts, config) ==
  /\ now = 0
  /\ injected \in {None, Some("client")}
  /\ hass = [data |-> {}, services |-> [s \in Services |-> 0],
             state |-> [e \in EntryIds |-> "new"]]
  /\ bank = accounts
  /\ entry = config
  /\ oauth_session = injected
  /\ client = injected
  /\ rate_limit_backoff_until = None
  /\ update_interval = DefaultUpdateInterval
  /\ data = None
  /\ sensors = {}
  /\ http = IdleHttp
  /\ entryState = "setup"
  /\ poll = IdlePoll
  /\ xfer = IdleXfer
  /\ upstream = 0
  /\ quietUntil = None
  /\ last = NoEvent

Init == InitWith(UpstreamAccounts, DefaultEntry)

\* Time passes.
Tick ==
  /\ now < MaxTime
  /\ now' = now + 1
  /\ last' = Step("Tick", None, None)
  /\ UNCHANGED <<injected, hass, bank, entry, http, oauth_session, client,
                 rate_limit_backoff_until,
                 update_interval, data, sensors, entryState, poll, xfer, upstream,
                 quietUntil>>

\* _ensure_client_initialized: whether the call returns (TRUE) or raises.
\* Sparebank1Client.__init__(self, hass, entry, oauth_session) takes three
\* arguments and line 54 passes two, so the construction raises TypeError,
\* after oauth_session has been assigned.
EnsureClientReturns == IsSome(oauth_session) /\ IsSome(client)
EnsureClientSession == IF EnsureClientReturns THEN oauth_session ELSE Some("session")

\* Mutant: the comparison of line 60 the wrong way round.
BackoffActiveForever == IsSome(rate_limit_backoff_until)
BackoffActiveFlipped ==
  IsSome(rate_limit_backoff_until) /\ now > Val(rate_limit_backoff_until)

\* if self._rate_limit_backoff_until and datetime.utcnow() < ...
BackoffActive ==
  IsSome(rate_limit_backoff_until) /\ now < Val(rate_limit_backoff_until)

\* ------------------------------------------------------------ poll helpers
\* entry.options.get(CONF_SELECTED_ACCOUNTS, entry.data.get(..., []))
SelectedAccounts ==
  IF IsSome(entry.options) THEN Val(entry.options)
  ELSE IF IsSome(entry.data) THEN Val(entry.data) ELSE {}

\* Lines 92-107: keep the accounts whose accountNumber is selected (a
\* record without accountNumber yields None, which no selection holds); an
\* empty selection keeps all.
FilterAccounts(accounts, selected) ==
  IF selected # {}
    THEN SelectSeq(accounts,
                   LAMBDA acc : acc.accountNumber # Absent
                                  /\ acc.accountNumber \in selected)
    ELSE accounts

\* acc_no.startswith("K")
StartsWithK(no) == no \in {"K1"}

\* Lines 115-149 and 160-185: the account numbers to look up, in list
\* order: not a credit card, and no numeric balance in the list record.
\* Mutant: the removal of lines 183-184 left out.
NeedsBalanceFetchDespiteInline(acc) ==
  /\ ~(acc.type = "CREDITCARD" \/ StartsWithK(acc.accountNumber))
  /\ acc.accountNumber # Absent

NeedsBalanceFetch(acc) ==
  /\ ~(acc.type = "CREDITCARD" \/ StartsWithK(acc.accountNumber))
  /\ acc.accountNumber # Absent
  /\ IsNone(acc.balance)

AccountNumbersOf(accounts) ==
  [i \in 1..Len(accounts) |-> accounts[i].accountNumber]

AccountNumbersToFetch(accounts) ==
  AccountNumbersOf(SelectSeq(accounts, NeedsBalanceFetch))

SeqRange(s) == {s[i] : i \in 1..Len(s)}

\* Sparebank1Client.get_account_balances, one request of its loop
\* (api.py:183-195): the answer is stored on success, an API error
\* (rate-limit errors included) is logged and skipped, any other exception
\* leaves the loop and the call.
BalancesAfter(balances, no, resp) ==
  IF Request(resp).ok THEN (no :> resp.json) @@ balances ELSE balances

BalanceCallRaises(resp) == ~Request(resp).ok /\ ~IsAPIError(Request(resp).exc)

\* The account numbers among the first idx requested whose request did not
\* store an answer (history).
FailedRequests(numbers, idx, balances) ==
  {numbers[j] : j \in 1..idx} \ DOMAIN balances

\* Mutant: the except clause of line 229 left out.
EnrichmentErrorEscapes == FALSE

\* Lines 112 and 229-232: an exception of the balance phase is caught and
\* its text kept for the snapshot.
EnrichmentErrorCaught == TRUE

\* A balance of the snapshot: {"amount": ..., "currency": ...}; the amount
\* is None when the balance answer had no accountBalance field and
\* dict.get supplied it.
Balance(amount) == Some([amount |-> amount])

\* Lines 160-180: a numeric balance of the list record becomes a balance of
\* the snapshot.
ConvertInline(accounts) ==
  [i \in 1..Len(accounts) |->
     IF IsSome(accounts[i].balance)
       THEN [accounts[i] EXCEPT
               !.balance = Balance(Some(StrOf(Val(accounts[i].balance))))]
       ELSE accounts[i]]

\* Lines 193-226: the balances merged into the fetched accounts.
MergeBalances(accounts, numbers, balances) ==
  [i \in 1..Len(accounts) |->
     IF /\ accounts[i].accountNumber \in SeqRange(numbers)
        /\ accounts[i].accountNumber \in DOMAIN balances
        /\ IsSome(balances[accounts[i].accountNumber])
       THEN [accounts[i] EXCEPT !.balance = Balance(balances[accounts[i].accountNumber])]
       ELSE accounts[i]]

\* Lines 241-253: the snapshot a poll returns.
Snapshot(accounts, errors) ==
  [accounts |-> accounts, last_update |-> now,
   balance_fetch_partial |-> (errors # <<>>), balance_fetch_errors |-> errors]

\* ----------------------------------------------------------------- sensors
\* sensor.py:42 and 182-185: the identifier of the balance entity of the
\* account at position idx (from 0) of the snapshot: the first of
\* accountNumber, creditCardAccountID, accountId and AccountId the record
\* has, else the text account_<idx>.
SyntheticIdentifier(idx) ==
  <<"account_0", "account_1", "account_2", "account_3", "account_4">>[idx + 1]

AccountIdentifier(acc, idx) ==
  IF acc.accountNumber # Absent THEN acc.accountNumber
  ELSE IF IsSome(acc.creditCardAccountID) THEN Val(acc.creditCardAccountID)
  ELSE IF IsSome(acc.accountId) THEN Val(acc.accountId)
  ELSE IF IsSome(acc.AccountId) THEN Val(acc.AccountId)
  ELSE SyntheticIdentifier(idx)

\* The fields of an account record that identify it.
AccountIdentity(acc) ==
  [accountNumber |-> acc.accountNumber,
   creditCardAccountID |-> acc.creditCardAccountID,
   accountId |-> acc.accountId, AccountId |-> acc.AccountId]

\* Sparebank1AccountBalanceSensor.__init__: the entity keeps its identifier,
\* its index and the account record it was created for.
BalanceSensor(acc, idx) ==
  [account_number |-> AccountIdentifier(acc, idx), account_index |-> idx,
   account_data |-> AccountIdentity(acc)]

\* _handle_coordinator_update (sensor.py:35-61), run for the first snapshot
\* and after every published one: an entity for every account whose
\* identifier has none yet, the first account of an identifier winning.
DiscoverSensors(added, accounts) ==
  LET id(i) == AccountIdentifier(accounts[i], i - 1)
      fresh == {i \in 1..Len(accounts) :
                  /\ \A e \in added : e.account_number # id(i)
                  /\ \A j \in 1..(i - 1) : id(j) # id(i)}
  IN added \cup {BalanceSensor(accounts[i], i - 1) : i \in fresh}

\* The first record of a sequence that satisfies a test, if any.
FirstOf(accounts, hits) ==
  IF hits = {} THEN None
  ELSE Some(accounts[CHOOSE i \in hits : \A j \in hits : i <= j])

\* available and native_value (sensor.py:226-232, 266-272): the first
\* account one of whose four identifier fields equals the identifier.
FindAccount(accounts, account_number) ==
  FirstOf(accounts,
          {i \in 1..Len(accounts) :
             \/ accounts[i].accountNumber = account_number
             \/ accounts[i].creditCardAccountID = Some(account_number)
             \/ accounts[i].accountId = Some(account_number)
             \/ accounts[i].AccountId = Some(account_number)})

\* extra_state_attributes (sensor.py:323-328): the first account whose
\* accountNumber, accountId or AccountId equals the identifier.
FindAccountForAttributes(accounts, account_number) ==
  FirstOf(accounts,
          {i \in 1..Len(accounts) :
             \/ accounts[i].accountNumber = account_number
             \/ accounts[i].accountId = Some(account_number)
             \/ accounts[i].AccountId = Some(account_number)})

\* Mutant: the reset of line 237 left out.
BackoffKeptAfterSuccess == rate_limit_backoff_until

\* Lines 235-239: what a returning poll leaves in the backoff state.
BackoffAfterSuccess ==
  IF IsSome(rate_limit_backoff_until) THEN None ELSE rate_limit_backoff_until
IntervalAfterSuccess ==
  IF IsSome(rate_limit_backoff_until) /\ update_interval # DefaultUpdateInterval
    THEN DefaultUpdateInterval ELSE update_interval

\* The poll returns a snapshot: the base class publishes it, and the first
\* refresh of async_setup_entry (__init__.py:134-144) stores the coordinator.
PollReturns(accounts, errors) ==
  /\ rate_limit_backoff_until' = BackoffAfterSuccess
  /\ update_interval' = IntervalAfterSuccess
  /\ data' = Some(Snapshot(accounts, errors))
  /\ sensors' = DiscoverSensors(sensors, accounts)
  /\ entryState' = IF entryState = "setup" THEN "loaded" ELSE entryState
  /\ poll' = IdlePoll

\* Mutant: a failed poll drops the snapshot.
PollRaisesDroppingSnapshot ==
  /\ entryState' = IF entryState = "setup" THEN "not_ready" ELSE entryState
  /\ poll' = IdlePoll
  /\ data' = None
  /\ UNCHANGED <<update_interval, sensors>>

\* The poll raises UpdateFailed: the snapshot stays, and a failed first
\* refresh fails the set-up of the entry.
PollRaises ==
  /\ entryState' = IF entryState = "setup" THEN "not_ready" ELSE entryState
  /\ poll' = IdlePoll
  /\ UNCHANGED <<update_interval, data, sensors>>

\* Lines 258-266: the backoff a rate-limit error of the accounts fetch sets.
BackoffUntilAfter(exc) == Some(now + BackoffSeconds(exc.message))

\* Mutant: every failure of the accounts fetch backs off.
BackoffAfterAnyFailure(exc) == BackoffUntilAfter(exc)
BackoffAfterApiFailure(exc) ==
  IF exc.kind \in {"RateLimit", "API"} THEN BackoffUntilAfter(exc)
  ELSE rate_limit_backoff_until

\* Lines 255-278: the backoff state after the accounts fetch raised exc.
BackoffAfterFailure(exc) ==
  IF exc.kind = "RateLimit" THEN BackoffUntilAfter(exc) ELSE rate_limit_backoff_until

\* The UpdateFailed a failed accounts fetch ends the poll with.
FailureKind(exc) ==
  CASE exc.kind = "RateLimit" -> "rate_limited"
    [] exc.kind = "API" -> "api_error"
    [] OTHER -> "unexpected"

\* The window a 429 answer itself announces: Retry-After N, N an integer.
IsDecimalInteger(h) == h # <<>> /\ \A i \in 1..Len(h) : h[i] \in Digits
AnnouncedWindow(resp) ==
  IF /\ resp.fault = "none" /\ resp.status = RateLimitStatus
     /\ IsSome(resp.retry_after) /\ IsDecimalInteger(Val(resp.retry_after))
    THEN Some(now + IntOf(Val(resp.retry_after)))
    ELSE quietUntil

\* ------------------------------------------------------------------- poll
\* _async_update_data up to its first request (lines 56-71), started by the
\* first refresh of the set-up, by the timer or by a requested refresh
\* (an options update, __init__.py:611, or a transfer's fallback).
PollStart ==
  /\ poll.pc = "idle"
  /\ entryState \in {"setup", "loaded"}
  /\ IF BackoffActive
       THEN /\ PollRaises
            /\ last' = PollStep("PollStart", None, "backoff")
            /\ UNCHANGED oauth_session
     ELSE IF ~EnsureClientReturns
       THEN /\ oauth_session' = EnsureClientSession
            /\ PollRaises
            /\ last' = PollStep("PollStart", None, "unexpected")
     ELSE /\ poll' = [IdlePoll EXCEPT !.pc = "get_accounts"]
          /\ last' = Step("PollStart", Some(HttpRequest("accounts", "poll")), None)
          /\ UNCHANGED <<oauth_session, update_interval, data, sensors, entryState>>
  /\ UNCHANGED <<now, injected, hass, bank, entry, http, client, rate_limit_backoff_until, xfer, upstream,
                 quietUntil>>

\* The accounts fetch is answered (lines 71-107, 255-278).
PollAccountsReturnWith(responses) ==
  /\ poll.pc = "get_accounts"
  /\ \E resp \in responses :
       LET r == Request(resp)
           listed == FilterAccounts(resp.json, SelectedAccounts)
           numbers == AccountNumbersToFetch(listed)
           accounts == ConvertInline(listed)
       IN IF ~r.ok
            THEN /\ rate_limit_backoff_until' = BackoffAfterFailure(r.exc)
                 /\ quietUntil' = AnnouncedWindow(resp)
                 /\ PollRaises
                 /\ last' = PollStep("PollAccountsReturn", Answer(resp),
                                     FailureKind(r.exc))
          ELSE IF numbers # <<>>
            THEN /\ poll' = [poll EXCEPT !.pc = "get_balances",
                               !.accounts = accounts, !.numbers = numbers, !.idx = 1]
                 /\ last' = Step("PollAccountsReturn",
                                 Some(HttpRequest("balance", "poll")), Answer(resp))
                 /\ UNCHANGED <<rate_limit_backoff_until, update_interval, data, sensors,
                                entryState, quietUntil>>
          ELSE /\ PollReturns(accounts, <<>>)
               /\ last' = PollStep("PollAccountsReturn", Answer(resp), "ok")
               /\ UNCHANGED quietUntil
  /\ UNCHANGED <<now, injected, hass, bank, entry, http, oauth_session, client, xfer, upstream>>

PollAccountsReturn == PollAccountsReturnWith(AccountsResponses(bank))

\* One balance request of the poll is answered (lines 187-253).
PollBalanceReturnWith(responses) ==
  /\ poll.pc = "get_balances"
  /\ \E resp \in responses :
       LET no == poll.numbers[poll.idx]
           balances == BalancesAfter(poll.balances, no, resp)
           failed == FailedRequests(poll.numbers, poll.idx, balances)
       IN IF BalanceCallRaises(resp)
            THEN IF EnrichmentErrorCaught
                   THEN /\ PollReturns(poll.accounts, <<Request(resp).exc.message>>)
                        /\ last' = [PollStep("PollBalanceReturn", Answer(resp), "ok")
                                      EXCEPT !.failed = failed]
                   ELSE /\ PollRaises
                        /\ last' = [PollStep("PollBalanceReturn", Answer(resp),
                                              "unexpected") EXCEPT !.failed = failed]
                        /\ UNCHANGED rate_limit_backoff_until
          ELSE IF poll.idx < Len(poll.numbers)
            THEN /\ poll' = [poll EXCEPT !.idx = poll.idx + 1, !.balances = balances]
                 /\ last' = Step("PollBalanceReturn",
                                 Some(HttpRequest("balance", "poll")), Answer(resp))
                 /\ UNCHANGED <<rate_limit_backoff_until, update_interval, data, sensors,
                                entryState>>
          ELSE /\ PollReturns(MergeBalances(poll.accounts, poll.numbers, balances), <<>>)
               /\ last' = [PollStep("PollBalanceReturn", Answer(resp), "ok")
                             EXCEPT !.failed = failed]
  /\ UNCHANGED <<now, injected, hass, bank, entry, http, oauth_session, client, xfer, upstream, quietUntil>>

PollBalanceReturn == PollBalanceReturnWith(BalanceResponses(Some(StrOf(upstream))))

\* The running poll is cancelled while it awaits a response: CancelledError
\* is raised at the await, and no except clause of _async_update_data
\* catches it (lines 229 and 255-278 name Exception and two of its
\* subclasses), so nothing the poll has built is kept. A cancelled first
\* refresh cancels the set-up with it; the action is the cancellation of a
\* poll of a stored coordinator.
PollCancel ==
  /\ poll.pc \in {"get_accounts", "get_balances"}
  /\ entryState = "loaded"
  /\ poll' = IdlePoll
  /\ last' = PollStep("PollCancel", None, "cancelled")
  /\ UNCHANGED <<now, injected, hass, bank, entry, http, sensors, oauth_session, client,
                 rate_limit_backoff_until, update_interval, data, entryState,
                 xfer, upstream, quietUntil>>

\* The host retries a failed set-up: async_setup_entry constructs a new
\* coordinator (__init__.py:131).
SetupRetry ==
  /\ entryState = "not_ready"
  /\ entryState' = "setup"
  /\ oauth_session' = injected
  /\ client' = injected
  /\ rate_limit_backoff_until' = None
  /\ update_interval' = DefaultUpdateInterval
  /\ data' = None
  /\ sensors' = {}
  /\ poll' = IdlePoll
  /\ quietUntil' = None
  /\ last' = Step("SetupRetry", None, None)
  /\ UNCHANGED <<now, injected, hass, bank, entry, http, xfer, upstream>>

\* -------------------------------------------------------- transfer helpers
\* Whether Sparebank1Client has the method the coordinator calls: api.py
\* defines transfer_money and no transfer_money_creditcard.
ClientHasMethod(kind) == kind = "debit"

\* Mutant: the first except clause (lines 305-307) left out.
TransferAlwaysWraps(exc) ==
  Exc("API", <<"Unexpected error: ">> \o exc.message, <<>>, None)

\* Lines 305-310 and 335-340: what the transfer call raises for an
\* exception raised inside it: API and rate-limit errors as they are, any
\* other exception as a new Sparebank1APIError.
TransferRaises(exc) ==
  IF IsAPIError(exc) THEN exc
  ELSE Exc("API", <<"Unexpected error: ">> \o exc.message, <<>>, None)

\* Mutant: the debit transfer refreshes the from account only.
RefreshScopeFromOnly(kind, from, to) == <<from>>

\* Lines 298 and 328: the accounts the post-transfer refresh is asked for.
RefreshScope(kind, from, to) == IF kind = "debit" THEN <<from, to>> ELSE <<from>>

\* Lines 364-381: the balances merged into the snapshot by a targeted
\* refresh; the snapshot is marked and republished only when an account
\* was updated.
\* Mutant: every account of the snapshot gets a new balance.
TargetedAccountsAll(accounts, balances) ==
  [i \in 1..Len(accounts) |->
     IF accounts[i].accountNumber \in DOMAIN balances
       THEN [accounts[i] EXCEPT !.balance = Balance(balances[accounts[i].accountNumber])]
       ELSE [accounts[i] EXCEPT !.balance = Balance(None)]]

TargetedAccounts(accounts, balances) ==
  [i \in 1..Len(accounts) |->
     IF accounts[i].accountNumber \in DOMAIN balances
       THEN [accounts[i] EXCEPT !.balance = Balance(balances[accounts[i].accountNumber])]
       ELSE accounts[i]]

UpdatedAny(accounts, balances) ==
  \E i \in 1..Len(accounts) : accounts[i].accountNumber \in DOMAIN balances

\* Mutant: the merge leaves last_update alone.
TargetedSnapshotKeepingTime(snap, balances) ==
  IF UpdatedAny(snap.accounts, balances)
    THEN [snap EXCEPT !.accounts = TargetedAccounts(snap.accounts, balances),
                      !.balance_fetch_partial = TRUE]
    ELSE snap

TargetedSnapshot(snap, balances) ==
  IF UpdatedAny(snap.accounts, balances)
    THEN [snap EXCEPT !.accounts = TargetedAccounts(snap.accounts, balances),
                      !.last_update = now, !.balance_fetch_partial = TRUE]
    ELSE snap

\* Lines 353-356: no snapshot to merge into.
NoSnapshot == IsNone(data)

\* Line 303 / 333: the value a transfer call returns once its refresh is over.
TransferReturnValue(x) == x.clientResult

\* Mutant: the refresh runs whatever the client call did (a finally block).
RefreshRunsAlways(r) == TRUE

\* Lines 287-298: the refresh follows the awaited client call inside the
\* try block, so it runs only when that call returned.
RefreshRuns(r) == r.ok

\* Mutant: the inner try/except of lines 297-301 left out.
RefreshErrorEscapes == FALSE

\* Lines 299-301: whether an exception of the targeted refresh is caught
\* and answered with a request for a full refresh.
RefreshErrorCaught == TRUE

\* -------------------------------------------------------- service handlers
\* The configuration stored with the coordinator (__init__.py:139-143) for
\* an entry that sets neither value: the defaults of const.py.
ConfigMaxAmount == DefaultMaxAmount
ConfigDefaultCurrency == "NOK"

\* The amount texts and the currencies of service calls. The currency of a
\* debit transfer is the call's currency_code, else the currencyCode of the
\* from account in the snapshot, which is the bank's to choose, else the
\* default currency (__init__.py:222-233).
AmountInputs ==
  {<<"a">>, <<"0">>, <<"5">>, <<"5", "0">>, <<"2", "0", "0", ".", "0", "1">>}
CurrencyInputs == {"NOK", "USD", "CHF"}
AcceptedAmountInputs == {<<"5", "0">>}

\* Lines 235-244 and 455-464: the validation a handler runs; a credit-card
\* transfer is validated in the default currency.
HandlerValidation(kind, amount_str, currency) ==
  ValidateAmountWithCurrencyConversion(
    amount_str,
    IF kind = "creditcard" THEN ConfigDefaultCurrency ELSE currency,
    ConfigDefaultCurrency, ConfigMaxAmount)

\* Mutant: the result of the validation ignored.
HandlerRejectsNothing(checked) == FALSE

\* Lines 246 and 466: if not is_valid.
HandlerRejects(checked) == ~checked.ok

\* What a handler lets its caller and the event bus see, in order: a
\* money-transferred event, an error raised, a normal return.
Output(o, success, text) == [o |-> o, success |-> success, text |-> text]

\* Lines 246-247 and 466-467.
RejectedOutputs(error) == << Output("raise", FALSE, <<"Invalid amount: ">> \o error) >>

FailurePrefix(kind) ==
  IF kind = "debit" THEN "Transfer failed: " ELSE "Credit card transfer failed: "

\* Mutant: a failed transfer raises without an event.
HandlerOutputsSilent(kind, returned, raised) ==
  IF IsSome(raised)
    THEN << Output("raise", FALSE, <<FailurePrefix(kind)>> \o Val(raised).message) >>
    ELSE << Output("event", TRUE, returned), Output("return", TRUE, <<>>) >>

\* Lines 250-342 and 470-554: the handler around the coordinator's call,
\* which returned a result or raised an exception.
HandlerOutputs(kind, returned, raised) ==
  IF IsNone(raised)
    THEN << Output("event", TRUE, returned), Output("return", TRUE, <<>>) >>
  ELSE IF IsAPIError(Val(raised))
    THEN << Output("event", FALSE, Val(raised).message),
            Output("raise", FALSE, <<FailurePrefix(kind)>> \o Val(raised).message) >>
  ELSE << Output("event", FALSE, <<"Unexpected error: ">> \o Val(raised).message),
          Output("raise", FALSE, <<"Unexpected error: ">> \o Val(raised).message) >>

\* The record of the step in which a service call arrives.
Called(e, kind, amount_str, currency) ==
  [e EXCEPT !.call = Some([kind |-> kind, amount |-> amount_str,
                           currency |-> currency])]

\* The record of the step that ends a transfer call.
TransferEnd(act, resp, x, clientExc, returned, raised) ==
  [Step(act, None, resp) EXCEPT !.ended = TRUE, !.kind = x.kind, !.from = x.from,
     !.to = x.to, !.returned = returned, !.raised = raised,
     !.clientResult = x.clientResult, !.clientExc = clientExc,
     !.targeted = x.targeted, !.refreshRaised = x.refreshRaised,
     !.fullRequests = x.fullRequests,
     !.outputs = HandlerOutputs(x.kind, returned, raised)]

\* The record of the step that ends a call of
\* async_refresh_account_balances made by no transfer.
RefreshEnd(act, resp, x, raised) ==
  [Step(act, None, resp) EXCEPT !.ended = TRUE, !.kind = x.kind,
     !.raised = raised, !.targeted = x.targeted,
     !.refreshRaised = x.refreshRaised, !.fullRequests = x.fullRequests]

\* The account lists async_refresh_account_balances is called with: none,
\* accounts of the snapshot, the credit card, and a number the bank does
\* not list.
RefreshLists == {<<>>, <<"A1">>, <<"A2", "Z9">>, <<"K1", "A1">>, <<"Z9">>}

\* --------------------------------------------------------------- transfers
\* A service call: the handler's validation (__init__.py:235-247, 455-467)
\* and, when it passes, async_transfer_money / async_transfer_money_creditcard
\* up to the client's request (lines 283-294, 315-324). The handlers serve a
\* coordinator stored in hass.data (__init__.py:182-187, 252, 472).
TransferStartWith(amounts, currencies) ==
  /\ xfer.pc = "idle"
  /\ entryState = "loaded"
  /\ upstream < MaxTransfers
  /\ \E kind \in {"debit", "creditcard"}, from \in DebitAccounts,
        to \in DebitAccounts \cup {"K1"}, amount_str \in amounts,
        currency \in currencies :
       /\ to # from
       /\ (kind = "creditcard") <=> (to = "K1")
       /\ (kind = "creditcard") => (currency = ConfigDefaultCurrency)
       /\ LET x == [IdleXfer EXCEPT !.kind = kind, !.from = from, !.to = to]
              typeError == Exc("Other", <<"TypeError">>, <<>>, None)
              attributeError == Exc("Other", <<"AttributeError">>, <<>>, None)
              checked == HandlerValidation(kind, amount_str, currency)
              passed == Some([amount |-> checked.amount, currency |-> currency])
          IN IF HandlerRejects(checked)
               THEN /\ xfer' = IdleXfer
                    /\ last' = Called([Step("TransferStart", None, None) EXCEPT
                                         !.outputs = RejectedOutputs(checked.error)],
                                      kind, amount_str, currency)
                    /\ UNCHANGED oauth_session
             ELSE IF ~EnsureClientReturns
               THEN /\ oauth_session' = EnsureClientSession
                    /\ xfer' = IdleXfer
                    /\ last' = Called([TransferEnd("TransferStart", None, x, None, None,
                                                   Some(TransferRaises(typeError)))
                                         EXCEPT !.submitted = passed],
                                      kind, amount_str, currency)
             ELSE IF ~ClientHasMethod(kind)
               THEN /\ xfer' = IdleXfer
                    /\ last' = Called([TransferEnd("TransferStart", None, x, None, None,
                                                   Some(TransferRaises(attributeError)))
                                         EXCEPT !.submitted = passed],
                                      kind, amount_str, currency)
                    /\ UNCHANGED oauth_session
             ELSE /\ xfer' = [x EXCEPT !.pc = "transfer"]
                  /\ last' = Called([Step("TransferStart",
                                          Some(HttpRequest("transfer", "transfer")),
                                          None) EXCEPT !.submitted = passed],
                                    kind, amount_str, currency)
                  /\ UNCHANGED oauth_session
  /\ UNCHANGED <<now, injected, hass, bank, entry, http, client, rate_limit_backoff_until, update_interval,
                 data, sensors, entryState, poll, upstream, quietUntil>>

\* A service call with an amount the validation accepts, in the default
\* currency.
TransferStart == TransferStartWith(AcceptedAmountInputs, {ConfigDefaultCurrency})

\* A service call with any amount and currency.
ServiceCall == TransferStartWith(AmountInputs, CurrencyInputs)

\* The transfer request is answered (lines 287-310); on success the
\* targeted refresh starts (lines 296-298, 342-359).
TransferReturn ==
  /\ xfer.pc = "transfer"
  /\ \E result \in TransferResults : \E resp \in TransferResponses(result) :
       LET r == Request(resp)
           scope == RefreshScope(xfer.kind, xfer.from, xfer.to)
           x == [xfer EXCEPT !.clientResult = Some(resp.json),
                             !.targeted = Append(xfer.targeted, scope)]
       IN IF ~RefreshRuns(r)
            THEN /\ xfer' = IdleXfer
                 /\ last' = TransferEnd("TransferReturn", Answer(resp), xfer,
                                        Some(r.exc), None, Some(TransferRaises(r.exc)))
                 /\ UNCHANGED upstream
          ELSE IF NoSnapshot
            THEN /\ upstream' = upstream + 1
                 /\ xfer' = [x EXCEPT !.pc = "await_refresh",
                                      !.fullRequests = x.fullRequests + 1]
                 /\ last' = Step("TransferReturn", None, Answer(resp))
          ELSE /\ upstream' = upstream + 1
               /\ xfer' = [x EXCEPT !.pc = "refresh_balances", !.numbers = scope,
                                    !.idx = 1]
               /\ last' = Step("TransferReturn",
                               Some(HttpRequest("balance", "transfer")), Answer(resp))
  /\ UNCHANGED <<now, injected, hass, bank, entry, http, oauth_session, client, rate_limit_backoff_until,
                 update_interval, data, sensors, entryState, poll, quietUntil>>

\* One balance request of the targeted refresh is answered (lines 358-381,
\* 299-303).
TransferBalanceReturnWith(responses) ==
  /\ xfer.pc = "refresh_balances"
  /\ \E resp \in responses :
       LET no == xfer.numbers[xfer.idx]
           balances == BalancesAfter(xfer.balances, no, resp)
           failed == FailedRequests(xfer.numbers, xfer.idx, balances)
           exc == Request(resp).exc
       IN IF BalanceCallRaises(resp)
            THEN IF xfer.kind = "refresh"
                   THEN /\ xfer' = IdleXfer
                        /\ last' = RefreshEnd("TransferBalanceReturn", Answer(resp),
                                              [xfer EXCEPT !.refreshRaised = TRUE],
                                              Some(exc))
                        /\ UNCHANGED <<data, sensors>>
                 ELSE IF RefreshErrorCaught
                   THEN /\ xfer' = [xfer EXCEPT !.pc = "fallback",
                                      !.refreshRaised = TRUE,
                                      !.fullRequests = xfer.fullRequests + 1]
                        /\ last' = Step("TransferBalanceReturn", None, Answer(resp))
                        /\ UNCHANGED <<data, sensors>>
                   ELSE /\ xfer' = IdleXfer
                        /\ last' = TransferEnd("TransferBalanceReturn", Answer(resp),
                                               [xfer EXCEPT !.refreshRaised = TRUE],
                                               None, None,
                                               Some(TransferRaises(exc)))
                        /\ UNCHANGED <<data, sensors>>
          ELSE IF xfer.idx < Len(xfer.numbers)
            THEN /\ xfer' = [xfer EXCEPT !.idx = xfer.idx + 1, !.balances = balances]
                 /\ last' = Step("TransferBalanceReturn",
                                 Some(HttpRequest("balance",
                                                  IF xfer.kind = "refresh"
                                                    THEN "refresh" ELSE "transfer")),
                                 Answer(resp))
                 /\ UNCHANGED <<data, sensors>>
          ELSE /\ data' = Some(TargetedSnapshot(Val(data), balances))
               /\ sensors' = IF UpdatedAny(Val(data).accounts, balances)
                               THEN DiscoverSensors(sensors, Val(data).accounts)
                               ELSE sensors
               /\ xfer' = IdleXfer
               /\ last' = [(IF xfer.kind = "refresh"
                              THEN RefreshEnd("TransferBalanceReturn", Answer(resp),
                                              xfer, None)
                              ELSE TransferEnd("TransferBalanceReturn", Answer(resp),
                                               xfer, None, TransferReturnValue(xfer),
                                               None))
                             EXCEPT !.failed = failed]
  /\ UNCHANGED <<now, injected, hass, bank, entry, http, oauth_session, client, rate_limit_backoff_until,
                 update_interval, entryState, poll, upstream, quietUntil>>

TransferBalanceReturn == TransferBalanceReturnWith(BalanceResponses(Some(StrOf(upstream))))

\* async_refresh_account_balances called on its own, on a coordinator that
\* exists (lines 342-359): nothing for an empty list; else the client is
\* ensured, a coordinator without snapshot is asked for a full refresh, and
\* one with a snapshot starts the balance requests.
RefreshStart ==
  /\ xfer.pc = "idle"
  /\ entryState \in {"setup", "loaded"}
  /\ \E numbers \in RefreshLists :
       LET x == [IdleXfer EXCEPT !.kind = "refresh", !.targeted = <<numbers>>]
           typeError == Exc("Other", <<"TypeError">>, <<>>, None)
       IN IF numbers = <<>>
            THEN /\ xfer' = IdleXfer
                 /\ last' = RefreshEnd("RefreshStart", None, x, None)
                 /\ UNCHANGED oauth_session
          ELSE IF ~EnsureClientReturns
            THEN /\ oauth_session' = EnsureClientSession
                 /\ xfer' = IdleXfer
                 /\ last' = RefreshEnd("RefreshStart", None, x, Some(typeError))
          ELSE IF NoSnapshot
            THEN /\ xfer' = [x EXCEPT !.pc = "await_refresh",
                                      !.fullRequests = x.fullRequests + 1]
                 /\ last' = [Step("RefreshStart", None, None) EXCEPT
                               !.targeted = x.targeted]
                 /\ UNCHANGED oauth_session
          ELSE /\ xfer' = [x EXCEPT !.pc = "refresh_balances", !.numbers = numbers,
                                    !.idx = 1]
               /\ last' = [Step("RefreshStart",
                                 Some(HttpRequest("balance", "refresh")), None)
                             EXCEPT !.targeted = x.targeted]
               /\ UNCHANGED oauth_session
  /\ UNCHANGED <<now, injected, hass, bank, entry, http, client, rate_limit_backoff_until,
                 update_interval, data, sensors, entryState, poll, upstream,
                 quietUntil>>

\* The awaited async_request_refresh returns (lines 301-303, 355-356); the
\* base class logs a failed poll and does not raise it to the requester.
TransferRefreshReturns ==
  /\ xfer.pc \in {"fallback", "await_refresh"}
  /\ xfer' = IdleXfer
  /\ last' = IF xfer.kind = "refresh"
               THEN RefreshEnd("TransferRefreshReturns", None, xfer, None)
               ELSE TransferEnd("TransferRefreshReturns", None, xfer, None,
                                TransferReturnValue(xfer), None)
  /\ UNCHANGED <<now, injected, hass, bank, entry, http, oauth_session, client, rate_limit_backoff_until,
                 update_interval, data, sensors, entryState, poll, upstream, quietUntil>>

\* ------------------------------------------------------------------ client
\* The public methods of Sparebank1Client called on their own.
ClientOps == {"get_accounts", "transfer_money", "get_account_balances"}
ClientBatches == {<<>>, <<"A1">>, <<"A1", "A2">>}

\* A method is called and, unless it is get_account_balances with no
\* account number (api.py:183, 195), awaits the token of its first request
\* (api.py:94, 69).
ClientCall ==
  /\ http.pc = "idle"
  /\ \E op \in ClientOps, numbers \in ClientBatches :
       /\ (op # "get_account_balances") => (numbers = <<>>)
       /\ LET h == [IdleHttp EXCEPT !.op = op, !.numbers = numbers,
                                    !.token = http.token]
          IN IF op = "get_account_balances" /\ numbers = <<>>
               THEN http' = [h EXCEPT !.outcome = Some(Outcome(TRUE, <<>>, None))]
               ELSE http' = [h EXCEPT !.pc = "auth", !.idx = 1, !.calls = 1]
  /\ last' = Step("ClientCall", None, None)
  /\ UNCHANGED <<now, injected, hass, bank, entry, sensors, oauth_session, client,
                 rate_limit_backoff_until, update_interval, data, entryState,
                 poll, xfer, upstream, quietUntil>>

\* async_ensure_token_valid returns or raises (api.py:69-101): on return
\* the headers are built and the request is sent; an exception of the
\* provider leaves _request, and get_account_balances with it.
ClientTokenReturn ==
  /\ http.pc = "auth"
  /\ \E p \in ProviderOutcomes :
       /\ p.refreshed => http.token < MaxRefreshes
       /\ LET token == IF p.refreshed THEN http.token + 1 ELSE http.token
              token_dict == IF p.dict THEN Some(token) ELSE None
              headers == MergeHeaders(AuthHeaders(token_dict, token),
                                      CallerHeaders(http.op))
              providerError == Exc("Other", <<"fault">>, <<>>, None)
          IN IF p.raises
               THEN /\ http' = [http EXCEPT !.pc = "idle",
                                   !.outcome = Some(Outcome(FALSE, None,
                                                            Some(providerError)))]
                    /\ last' = Step("ClientTokenReturn", None, None)
               ELSE /\ http' = [http EXCEPT !.pc = "wire", !.token = token,
                                   !.acquired = Append(http.acquired, token),
                                   !.wire = Append(http.wire, headers)]
                    /\ last' = Step("ClientTokenReturn",
                                    Some(HttpRequest(http.op, "client")), None)
  /\ UNCHANGED <<now, injected, hass, bank, entry, sensors, oauth_session, client,
                 rate_limit_backoff_until, update_interval, data, entryState,
                 poll, xfer, upstream, quietUntil>>

\* The request is answered (api.py:101-151): get_accounts and
\* transfer_money end with what _request returned or raised;
\* get_account_balances (lines 183-195) stores the answer or skips an API
\* error and goes on to the next account number.
ClientResponse ==
  /\ http.pc = "wire"
  /\ \E resp \in ClientResponses :
       LET r == Request(resp)
           no == http.numbers[http.idx]
           results == BalancesAfter(http.results, no, resp)
           raised == Outcome(FALSE, None, Some(r.exc))
       IN /\ IF http.op # "get_account_balances"
               THEN http' = [http EXCEPT !.pc = "idle",
                               !.outcome = IF r.ok
                                             THEN Some(Outcome(TRUE, Some(resp.json), None))
                                             ELSE Some(raised)]
             ELSE IF BalanceCallRaises(resp)
               THEN http' = [http EXCEPT !.pc = "idle", !.outcome = Some(raised)]
             ELSE IF http.idx < Len(http.numbers)
               THEN http' = [http EXCEPT !.pc = "auth", !.idx = http.idx + 1,
                               !.calls = http.calls + 1, !.results = results]
             ELSE http' = [http EXCEPT !.pc = "idle", !.results = results,
                             !.outcome = Some(Outcome(TRUE, Some(results), None))]
          /\ last' = Step("ClientResponse", None, Answer(resp))
  /\ UNCHANGED <<now, injected, hass, bank, entry, sensors, oauth_session, client,
                 rate_limit_backoff_until, update_interval, data, entryState,
                 poll, xfer, upstream, quietUntil>>

ClientNext ==
  \/ ClientCall
  \/ ClientTokenReturn
  \/ ClientResponse

ClientSpec == Init /\ [][ClientNext]_vars

\* utils.validate_norwegian_account_number. The argument is a value with
\* its type: a str with its characters, or something that is not a str.
\* The checksum of the first i digits under the weights of line 22:
RECURSIVE WeightedChecksum(_, _)
WeightedChecksum(clean, i) ==
  IF i = 0 THEN 0
  ELSE WeightedChecksum(clean, i - 1)
         + DigitVal(clean[i]) * <<5, 4, 3, 2, 7, 6, 5, 4, 3, 2>>[i]

ValidateNorwegianAccountNumber(account_number) ==
  IF ~account_number.isStr THEN FALSE
  ELSE LET clean == SelectSeq(account_number.text, LAMBDA c : c \notin {" ", "."})
           remainder == WeightedChecksum(clean, 10) % 11
           expected_check_digit == IF remainder < 2 THEN 0 ELSE 11 - remainder
       IN IF ~(Len(clean) = 11 /\ \A i \in 1..Len(clean) : clean[i] \in Digits)
            THEN FALSE
          ELSE expected_check_digit = DigitVal(clean[11])

\* --------------------------------------------------------------- validator
\* The amount texts validate_amount is called with: those of the service
\* calls and the amounts 0.000 .. 10.196 with three decimals.
ValidatorInputs ==
  AmountInputs
    \cup {w \o <<".", a, b, c>> :
            w \in {<<"0">>, <<"1", "0">>}, a \in {"0", "1"}, b \in Digits,
            c \in {"0", "4", "5", "6"}}

\* The account numbers validated: eleven-digit texts (a number whose
\* checksum remainder is 8, one whose remainder is 0, one whose remainder is
\* 1 and one whose remainder is 10) with one position rewritten, two written
\* forms of a number, texts that are not eleven digits, and a value that is
\* not a str.
AccountNumberInputs ==
  LET bases == {<<"1", "2", "3", "4", "5", "6", "7", "8", "9", "0", "3">>,
                <<"0", "0", "0", "0", "0", "0", "0", "0", "0", "0", "0">>,
                <<"0", "0", "0", "0", "0", "0", "0", "0", "0", "6", "0">>,
                <<"0", "0", "0", "0", "0", "0", "0", "0", "0", "5", "1">>}
      str(text) == [isStr |-> TRUE, text |-> text]
  IN {str([b EXCEPT ![p] = d]) : b \in bases, p \in 1..11, d \in Digits}
       \cup {str(<<"1", "2", "3", "4", ".", "5", "6", ".", "7", "8", "9", "0", "3">>),
             str(<<"1", "2", "3", "4", " ", "5", "6", " ", "7", "8", "9", "0", "3">>),
             str(<<"1", "2", "3", "4", "5", "6", "7", "8", "9", "0">>),
             str(<<"1", "2", "3", "4", "5", "6", "7", "8", "9", "0", "x">>),
             str(<<>>),
             [isStr |-> FALSE, text |-> <<>>]}

\* validate_norwegian_account_number called on its own.
ValidateAccountNumber ==
  /\ \E account_number \in AccountNumberInputs :
       last' = [Step("ValidateAccountNumber", None, None) EXCEPT
                  !.call = Some([kind |-> "validate_norwegian_account_number",
                                 account_number |-> account_number]),
                  !.outputs = <<ValidateNorwegianAccountNumber(account_number)>>]
  /\ UNCHANGED <<now, injected, hass, bank, entry, http, sensors, oauth_session, client,
                 rate_limit_backoff_until, update_interval, data, entryState,
                 poll, xfer, upstream, quietUntil>>

\* convert_currency called on its own, with amounts in hundredths and the
\* currency codes of the rate table and CHF, which is not in it.
Convert ==
  /\ \E amount \in {0, 1, 50, 83, 10000, 12345},
        from_currency \in DOMAIN CurrencyRates \cup {"CHF"},
        to_currency \in DOMAIN CurrencyRates \cup {"CHF"} :
       last' = [Step("Convert", None, None) EXCEPT
                  !.call = Some([kind |-> "convert_currency", amount |-> amount,
                                 from_currency |-> from_currency,
                                 to_currency |-> to_currency]),
                  !.outputs = <<ConvertCurrency(amount, from_currency, to_currency)>>]
  /\ UNCHANGED <<now, injected, hass, bank, entry, http, sensors, oauth_session, client,
                 rate_limit_backoff_until, update_interval, data, entryState,
                 poll, xfer, upstream, quietUntil>>

\* validate_amount_with_currency_conversion called on its own, with the
\* default maximum and default currency of a device.
ValidateConverted ==
  /\ \E amount_str \in AmountInputs \cup {<<"0", ".", "0", "0", "4">>,
                                          <<"0", ".", "0", "0", "5">>,
                                          <<"0", ".", "0", "1">>},
        transfer_currency \in CurrencyInputs,
        max_amount \in {DefaultMaxAmount} :
       last' = [Step("ValidateConverted", None, None) EXCEPT
                  !.call = Some([kind |-> "validate_amount_with_currency_conversion",
                                 amount |-> amount_str,
                                 transfer_currency |-> transfer_currency,
                                 max_amount |-> max_amount]),
                  !.outputs = <<ValidateAmountWithCurrencyConversion(
                                  amount_str, transfer_currency, ConfigDefaultCurrency,
                                  max_amount)>>]
  /\ UNCHANGED <<now, injected, hass, bank, entry, http, sensors, oauth_session, client,
                 rate_limit_backoff_until, update_interval, data, entryState,
                 poll, xfer, upstream, quietUntil>>

\* validate_amount called on its own, without and with a maximum.
Validate ==
  /\ \E amount_str \in ValidatorInputs, max_amount \in {None, Some(DefaultMaxAmount)} :
       last' = [Step("Validate", None, None) EXCEPT
                  !.call = Some([kind |-> "validate_amount", amount |-> amount_str,
                                 max_amount |-> max_amount]),
                  !.outputs = <<ValidateAmount(amount_str, max_amount)>>]
  /\ UNCHANGED <<now, injected, hass, bank, entry, http, sensors, oauth_session, client,
                 rate_limit_backoff_until, update_interval, data, entryState,
                 poll, xfer, upstream, quietUntil>>

ValidatorNext ==
  \/ Validate
  \/ ValidateConverted

ValidatorSpec == Init /\ [][ValidatorNext]_vars

AccountNumberSpec == Init /\ [][ValidateAccountNumber]_vars

ConvertSpec == Init /\ [][Convert]_vars

Next ==
  \/ Tick
  \/ PollStart
  \/ PollAccountsReturn
  \/ PollBalanceReturn
  \/ PollCancel
  \/ SetupRetry
  \/ TransferStart
  \/ TransferReturn
  \/ TransferBalanceReturn
  \/ TransferRefreshReturns

Spec == Init /\ [][Next]_vars

\* The service handlers with every amount and currency; the clock stands
\* still.
ServiceNext ==
  \/ PollStart
  \/ PollAccountsReturn
  \/ PollBalanceReturn
  \/ SetupRetry
  \/ ServiceCall
  \/ TransferReturn
  \/ TransferBalanceReturn
  \/ TransferRefreshReturns

ServiceSpec == Init /\ [][ServiceNext]_vars

\* The coordinator with async_refresh_account_balances called on its own,
\* at any time of the coordinator's life.
RefreshNext ==
  \/ PollStart
  \/ PollAccountsReturn
  \/ PollBalanceReturn
  \/ SetupRetry
  \/ RefreshStart
  \/ TransferBalanceReturn
  \/ TransferRefreshReturns

RefreshSpec == Init /\ [][RefreshNext]_vars

\* ----------------------------------------------------------- availability
BaseAvailableInclusive(snapshot, utcnow, last_update_success) ==
  IF IsNone(snapshot) THEN FALSE
  ELSE IF utcnow - Val(snapshot).last_update <= MaxStalenessSeconds THEN TRUE
  ELSE last_update_success

\* BaseSparebank1Sensor.available (sensor.py:88-118) for the coordinator's
\* data, the clock and the coordinator's last_update_success. last_update is
\* the isoformat text coordinator.py:243 and :378 write, which fromisoformat
\* reads back.
BaseAvailable(snapshot, utcnow, last_update_success) ==
  IF IsNone(snapshot) THEN FALSE
  ELSE IF utcnow - Val(snapshot).last_update < MaxStalenessSeconds THEN TRUE
  ELSE last_update_success

\* Three hours pass, or three hours less a second.
LongWait ==
  /\ now <= MaxTime
  /\ \E seconds \in {MaxStalenessSeconds - 1, MaxStalenessSeconds} :
       now' = now + seconds
  /\ last' = Step("LongWait", None, None)
  /\ UNCHANGED <<injected, hass, bank, entry, http, oauth_session, client,
                 rate_limit_backoff_until,
                 update_interval, data, sensors, entryState, poll, xfer, upstream,
                 quietUntil>>

\* The state machine reads available. last_update_success is the attribute
\* the base class of the coordinator keeps: the outcome of the latest
\* refresh, either value.
ReadAvailable ==
  /\ \E last_update_success \in BOOLEAN :
       last' = [Step("ReadAvailable", None, None) EXCEPT
                  !.call = Some([kind |-> "available",
                                 last_update_success |-> last_update_success]),
                  !.outputs = <<BaseAvailable(data, now, last_update_success)>>]
  /\ UNCHANGED <<now, injected, hass, bank, entry, http, sensors, oauth_session, client,
                 rate_limit_backoff_until, update_interval, data, entryState,
                 poll, xfer, upstream, quietUntil>>

SensorNext ==
  \/ Tick
  \/ LongWait
  \/ PollStart
  \/ PollAccountsReturn
  \/ PollBalanceReturn
  \/ SetupRetry
  \/ ReadAvailable

SensorSpec == Init /\ [][SensorNext]_vars

\* ------------------------------------------------------------ config entries
RegisterServiceUnguarded(services, s) == [services EXCEPT ![s] = @ + 1]

\* __init__.py:556-572: a service is registered unless has_service finds it.
RegisterService(services, s) ==
  IF services[s] = 0 THEN [services EXCEPT ![s] = @ + 1] ELSE services

\* async_setup_entry (__init__.py:129-144, 556-580) from the return of the
\* first refresh on. A first refresh that raises leaves everything as it
\* was; it can return only where the coordinator gets a client. Otherwise
\* the coordinator is stored, the services are registered, and the sensor
\* platform is set up or fails to.
SetupEntry ==
  /\ \E e \in EntryIds :
     \E refreshed \in (IF IsSome(injected) THEN BOOLEAN ELSE {FALSE}) :
     \E platforms_ok \in BOOLEAN :
       /\ hass.state[e] \in {"new", "not_ready", "setup_error", "not_loaded", "reloading"}
       /\ hass' = IF ~refreshed
                    THEN [hass EXCEPT !.state[e] = "not_ready"]
                    ELSE [data |-> hass.data \cup {e},
                          services |-> RegisterService(RegisterService(hass.services, "transfer_debit"),
                                                  "transfer_creditcard"),
                          state |-> [hass.state EXCEPT
                                       ![e] = IF platforms_ok THEN "loaded"
                                              ELSE "setup_error"]]
       /\ last' = [Step("SetupEntry", None, None) EXCEPT
                     !.call = Some([kind |-> "async_setup_entry", entry |-> e])]
  /\ UNCHANGED <<now, injected, bank, entry, http, sensors, oauth_session, client,
                 rate_limit_backoff_until, update_interval, data, entryState,
                 poll, xfer, upstream, quietUntil>>

\* The registry and the services after async_unload_entry
\* (__init__.py:615-644) of entry e, from the return of
\* async_unload_platforms on. Every value async_setup_entry stores is a
\* dict with a coordinator, so the remaining entries of lines 632-635 are
\* the stored ones, and the services go when none is left.
HassAfterUnload(e, unload_ok, state) ==
  IF unload_ok
    THEN [data |-> hass.data \ {e},
          services |-> IF hass.data \ {e} = {} THEN [s \in Services |-> 0]
                       ELSE hass.services,
          state |-> [hass.state EXCEPT ![e] = state]]
    ELSE [hass EXCEPT !.state[e] = IF state = "reloading" THEN state
                                   ELSE "failed_unload"]

\* async_unload_entry of a loaded entry.
UnloadEntry ==
  /\ \E e \in EntryIds : \E unload_ok \in BOOLEAN :
       /\ hass.state[e] = "loaded"
       /\ hass' = HassAfterUnload(e, unload_ok, "not_loaded")
       /\ last' = [Step("UnloadEntry", None, None) EXCEPT
                     !.call = Some([kind |-> "async_unload_entry", entry |-> e])]
  /\ UNCHANGED <<now, injected, bank, entry, http, sensors, oauth_session, client,
                 rate_limit_backoff_until, update_interval, data, entryState,
                 poll, xfer, upstream, quietUntil>>

\* async_reload_entry (__init__.py:647-650) up to its set-up: the unload,
\* whose result is not looked at; SetupEntry is the rest.
ReloadEntry ==
  /\ \E e \in EntryIds : \E unload_ok \in BOOLEAN :
       /\ hass.state[e] = "loaded"
       /\ hass' = HassAfterUnload(e, unload_ok, "reloading")
       /\ last' = [Step("ReloadEntry", None, None) EXCEPT
                     !.call = Some([kind |-> "async_reload_entry", entry |-> e])]
  /\ UNCHANGED <<now, injected, bank, entry, http, sensors, oauth_session, client,
                 rate_limit_backoff_until, update_interval, data, entryState,
                 poll, xfer, upstream, quietUntil>>

RegistryNext ==
  \/ SetupEntry
  \/ UnloadEntry
  \/ ReloadEntry

RegistrySpec == Init /\ [][RegistryNext]_vars

\* Polls and targeted refreshes against an upstream whose balance answers
\* may lack accountBalance.
GapNext ==
  \/ PollStart
  \/ PollAccountsReturn
  \/ PollBalanceReturnWith(BalanceResponsesWithGaps(Some(StrOf(upstream))))
  \/ SetupRetry
  \/ RefreshStart
  \/ TransferBalanceReturnWith(BalanceResponsesWithGaps(Some(StrOf(upstream))))
  \/ TransferRefreshReturns

GapSpec == Init /\ [][GapNext]_vars

\* Polls alone, for every list the bank may report and every selection.
PollInit == \E accounts \in BankLists, config \in Entries : InitWith(accounts, config)

PollNext ==
  \/ Tick
  \/ PollStart
  \/ PollAccountsReturn
  \/ PollBalanceReturn
  \/ SetupRetry

PollSpec == PollInit /\ [][PollNext]_vars

\* Polls under a timer that keeps firing (the update interval of line 36
\* reschedules the poll after every outcome, and a set-up that was not ready
\* is retried), requests that are answered, and an upstream whose accounts
\* endpoint answers 200 again and again.
LiveSpec ==
  /\ Init
  /\ [][PollNext]_vars
  /\ WF_vars(PollStart)
  /\ WF_vars(SetupRetry)
  /\ WF_vars(PollBalanceReturn)
  /\ SF_vars(PollAccountsReturnWith({OkResponse(bank)}))

\* ------------------------------------------------------------------ claims
InAnnouncedWindow == IsSome(quietUntil) /\ now < Val(quietUntil)
AnswerOf(e) == Val(e.resp)
IsRateLimitAnswer(a) == a.fault = "none" /\ a.status = 429
IsSuccessAnswer(a) == a.fault = "none" /\ a.status < 400

\* C1: a poll attempted while the current time is strictly before
\* rate_limit_backoff_until fails at once with the backoff error and issues
\* no request (PollStart changes neither the clock nor the backoff time).
C1_PollRefusedInBackoff ==
  (/\ last.act = "PollStart"
   /\ IsSome(rate_limit_backoff_until)
   /\ now < Val(rate_limit_backoff_until))
    => (last.poll = "backoff" /\ IsNone(last.sent) /\ poll.pc = "idle")

C1_Witness == last.act = "PollStart" /\ last.poll = "backoff"

\* C2: during the N seconds after the accounts fetch was answered with a 429
\* carrying Retry-After N, no step of the coordinator issues an HTTP request.
C2_NoRequestInAnnouncedWindow == InAnnouncedWindow => IsNone(last.sent)

\* C3: a rate-limit failure of the accounts fetch sets the backoff time to
\* the time of the failure plus the Retry-After value when it is a decimal
\* integer, plus 3600 when the header is absent or is no number.
C3_ClaimedSeconds(a) ==
  IF IsSome(a.retry_after) /\ IsDecimalInteger(Val(a.retry_after))
    THEN IntOf(Val(a.retry_after)) ELSE 3600

C3_BackoffFromHeader ==
  (last.act = "PollAccountsReturn" /\ IsRateLimitAnswer(AnswerOf(last)))
    => rate_limit_backoff_until = Some(now + C3_ClaimedSeconds(AnswerOf(last)))

\* C4: right after a poll that returns a snapshot the backoff time is empty,
\* and the polling interval is one hour in every state.
C4_SuccessClearsBackoff ==
  /\ last.poll = "ok" => IsNone(rate_limit_backoff_until)
  /\ update_interval = 3600

C4_Witness ==
  /\ last.poll = "ok"
  /\ IsSome(quietUntil)
  /\ Val(data).balance_fetch_partial

\* C5: a poll whose accounts fetch fails with a status of 400 or more other
\* than 429, with a network error or with an unexpected exception fails and
\* leaves the backoff time (and the snapshot) as before.
C5_GenericFailureKeepsBackoff ==
  [][(/\ last'.act = "PollAccountsReturn"
      /\ ~IsSuccessAnswer(AnswerOf(last'))
      /\ ~IsRateLimitAnswer(AnswerOf(last')))
       => (/\ last'.poll \in {"api_error", "unexpected"}
           /\ poll'.pc = "idle"
           /\ rate_limit_backoff_until' = rate_limit_backoff_until
           /\ data' = data)]_vars

C5_Witness ==
  /\ last.act = "PollAccountsReturn"
  /\ last.poll = "api_error"
  /\ IsSome(rate_limit_backoff_until)

\* C7: a debit transfer whose client call returned started exactly one
\* targeted refresh, for the list <<from, to>>, and requested one full
\* refresh when that targeted refresh raised and none otherwise.
C7_OneTargetedRefresh ==
  (last.ended /\ last.kind = "debit" /\ IsSome(last.clientResult))
    => (/\ last.targeted = << <<last.from, last.to>> >>
        /\ last.fullRequests = (IF last.refreshRaised THEN 1 ELSE 0))

C7_Witness ==
  /\ last.ended /\ last.kind = "debit" /\ IsSome(last.clientResult)
  /\ last.refreshRaised

\* C8: when the client's transfer call returned a result, the debit
\* transfer call returns that result and raises nothing, also when the
\* targeted refresh raised and the full refresh was requested instead.
C8_ResultSurvivesRefresh ==
  (last.ended /\ last.kind = "debit" /\ IsSome(last.clientResult))
    => (last.returned = last.clientResult /\ IsNone(last.raised))

C8_Witness ==
  /\ last.ended /\ last.kind = "debit" /\ last.refreshRaised
  /\ last.returned = Some("p2")

\* C9: when the client's transfer call raised, the transfer call returns
\* nothing and raises: the same error for an API or rate-limit error, a
\* generic API error (no status, no structured errors) for anything else.
C9_TransferFailureRaised ==
  (last.ended /\ IsSome(last.clientExc))
    => (/\ IsNone(last.returned)
        /\ IsSome(last.raised)
        /\ IF Val(last.clientExc).kind \in {"API", "RateLimit"}
             THEN Val(last.raised) = Val(last.clientExc)
             ELSE /\ Val(last.raised).kind = "API"
                  /\ IsNone(Val(last.raised).http_code)
                  /\ Val(last.raised).errors = <<>>)

C9_Witness ==
  /\ last.ended /\ IsSome(last.clientExc)
  /\ Val(last.clientExc).kind = "API"
  /\ Val(last.clientExc).http_code = Some(500)
  /\ Val(last.clientExc).errors # <<>>

\* C10: a transfer's refresh starts only once its transfer request has been
\* answered with success: a balance request of a transfer is issued with
\* the transfer request no longer outstanding and the client's result in
\* hand, nothing is refreshed or requested while the transfer request is
\* outstanding, and a transfer whose client call did not return has
\* started no targeted refresh and requested no full refresh.
C10_RefreshAfterTransfer ==
  /\ (IsSome(last.sent) /\ Val(last.sent).by = "transfer"
        /\ Val(last.sent).kind = "balance")
       => (/\ xfer.pc = "refresh_balances"
           /\ IsSome(xfer.clientResult)
           /\ last.act = "TransferReturn" => IsSuccessAnswer(AnswerOf(last)))
  /\ xfer.pc = "transfer"
       => (xfer.targeted = <<>> /\ xfer.fullRequests = 0 /\ IsNone(xfer.clientResult))
  /\ (last.ended /\ IsNone(last.clientResult))
       => (last.targeted = <<>> /\ last.fullRequests = 0)

C10_Witness ==
  /\ last.act = "TransferReturn"
  /\ last.sent = Some(HttpRequest("balance", "transfer"))

\* C15: a poll whose accounts fetch succeeded and in which the balance
\* request of an account failed returns a snapshot marked partial, with a
\* non-empty error list, that holds every fetched account, the accounts
\* whose request failed without a balance.
C15_FailedBalanceMarksPartial ==
  (last.poll = "ok" /\ last.failed # {})
    => (/\ Val(data).balance_fetch_partial
        /\ Val(data).balance_fetch_errors # <<>>
        /\ AccountNumbersOf(Val(data).accounts) = AccountNumbersOf(UpstreamAccounts)
        /\ \A i \in 1..Len(Val(data).accounts) :
              Val(data).accounts[i].accountNumber \in last.failed
                => IsNone(Val(data).accounts[i].balance))

\* C16: an exception that leaves the balance phase of a poll does not fail
\* the poll: it returns a snapshot with the fetched accounts, marked
\* partial, whose error list holds the text of the exception.
C16_EnrichmentFailureNotFatal ==
  (last.act = "PollBalanceReturn" /\ AnswerOf(last).fault = "other")
    => (/\ last.poll = "ok"
        /\ poll.pc = "idle"
        /\ IsSome(data)
        /\ Val(data).last_update = now
        /\ Val(data).balance_fetch_partial
        /\ Val(data).balance_fetch_errors = << <<"fault">> >>
        /\ AccountNumbersOf(Val(data).accounts) = AccountNumbersOf(UpstreamAccounts))

C16_Witness ==
  /\ last.act = "PollBalanceReturn"
  /\ AnswerOf(last).fault = "other"
  /\ last.failed = {"A2"}
  /\ last.poll = "ok"

\* C17: a failed balance request, of whatever kind, is followed by the
\* request for the next account number of the batch, in a poll and in a
\* targeted refresh alike.
C17_BatchNeverAborted ==
  [][/\ (/\ last'.act = "PollBalanceReturn"
          /\ ~IsSuccessAnswer(AnswerOf(last'))
          /\ poll.idx < Len(poll.numbers))
           => (/\ poll'.pc = "get_balances"
               /\ poll'.idx = poll.idx + 1
               /\ last'.sent = Some(HttpRequest("balance", "poll")))
     /\ (/\ last'.act = "TransferBalanceReturn"
          /\ ~IsSuccessAnswer(AnswerOf(last'))
          /\ xfer.idx < Len(xfer.numbers))
           => (/\ xfer'.pc = "refresh_balances"
               /\ xfer'.idx = xfer.idx + 1
               /\ last'.sent = Some(HttpRequest("balance", "transfer")))]_vars

\* Whether the text sub occurs in the text msg.
Contains(msg, sub) ==
  \E i \in 1..(Len(msg) - Len(sub) + 1) : SubSeq(msg, i, i + Len(sub) - 1) = sub

\* C11: a service call whose amount fails validation raises to the caller
\* in the step in which it arrives: the coordinator's transfer operation is
\* not called, no request is issued and no transfer is left running.
C11_RejectedBeforeAnyCall ==
  (/\ IsSome(last.call)
   /\ ~ValidateAmountWithCurrencyConversion(
         Val(last.call).amount,
         IF Val(last.call).kind = "creditcard" THEN "NOK" ELSE Val(last.call).currency,
         "NOK", 200).ok)
    => (/\ Len(last.outputs) = 1
        /\ last.outputs[1].o = "raise"
        /\ IsNone(last.submitted)
        /\ ~last.ended
        /\ IsNone(last.sent)
        /\ xfer.pc = "idle")

C11_Witness ==
  /\ IsSome(last.call)
  /\ Val(last.call) = [kind |-> "debit", amount |-> <<"5", "0">>, currency |-> "CHF"]
  /\ last.outputs # <<>>

\* C12: an amount passed to the coordinator is, converted to the default
\* currency at the fixed rates (1 USD = 10 NOK), at most the configured
\* maximum of 200 NOK; a call beyond it is rejected with a message that
\* names the amount and its currency and the converted amount and the
\* default currency (50 USD: "50.00", "USD", "500.00", "NOK").
C12_CapInDefaultCurrency ==
  /\ (IsSome(last.submitted) /\ Val(last.submitted).currency = "NOK")
       => Val(Val(last.submitted).amount) <= 200 * 100
  /\ (IsSome(last.submitted) /\ Val(last.submitted).currency = "USD")
       => Val(Val(last.submitted).amount) * 10 <= 200 * 100
  /\ IsSome(last.submitted) => Val(last.submitted).currency \in {"NOK", "USD"}
  /\ (/\ IsSome(last.call)
      /\ Val(last.call) = [kind |-> "debit", amount |-> <<"5", "0">>, currency |-> "USD"])
       => (/\ IsNone(last.submitted)
           /\ last.outputs[1].o = "raise"
           /\ Contains(last.outputs[1].text, <<"5", "0", ".", "0", "0", " ", "USD">>)
           /\ Contains(last.outputs[1].text,
                        <<"5", "0", "0", ".", "0", "0", " ", "NOK">>))

C12_Witness ==
  /\ IsSome(last.call)
  /\ Val(last.call) = [kind |-> "debit", amount |-> <<"5", "0">>, currency |-> "USD"]
  /\ last.outputs # <<>>
  /\ IsNone(last.submitted)

\* C13: a handler whose coordinator call raised fires one money-transferred
\* event with success false and a failure reason, and then raises; it does
\* not return and fires no other event.
C13_FailureEventThenRaise ==
  (last.ended /\ IsSome(last.raised))
    => (/\ Len(last.outputs) = 2
        /\ last.outputs[1].o = "event"
        /\ ~last.outputs[1].success
        /\ last.outputs[1].text # <<>>
        /\ last.outputs[2].o = "raise")

C13_Witness ==
  /\ last.ended /\ IsSome(last.raised)
  /\ last.act = "TransferReturn"
  /\ Val(last.raised).http_code = Some(500)

\* C14: a credit-card transfer made with a working client calls the
\* client's credit-card transfer, which issues the transfer request.
C14_CreditCardDelegates ==
  (/\ IsSome(last.call) /\ Val(last.call).kind = "creditcard"
   /\ IsSome(last.submitted) /\ IsSome(injected))
    => (last.sent = Some(HttpRequest("transfer", "transfer")) /\ ~last.ended)

\* C18: an account whose list record carries a numeric balance is never
\* among the account numbers a poll asks the balance endpoint for, and its
\* balance in the snapshot of a poll is that number as a string.
C18_InlineBalanceKept ==
  /\ \A j \in 1..Len(poll.numbers) : \A i \in 1..Len(bank) :
        IsSome(bank[i].balance) => poll.numbers[j] # bank[i].accountNumber
  /\ IsSome(data) =>
        \A k \in 1..Len(Val(data).accounts) : \A i \in 1..Len(bank) :
          (/\ bank[i].accountNumber = Val(data).accounts[k].accountNumber
           /\ bank[i].creditCardAccountID = Val(data).accounts[k].creditCardAccountID
           /\ bank[i].accountId = Val(data).accounts[k].accountId
           /\ bank[i].AccountId = Val(data).accounts[k].AccountId
           /\ IsSome(bank[i].balance))
            => Val(data).accounts[k].balance
                 = Some([amount |-> Some(<<"str", Val(bank[i].balance)>>)])

C18_Witness ==
  /\ last.poll = "ok"
  /\ last.act = "PollBalanceReturn"
  /\ bank[1] = [accountNumber |-> "A1", creditCardAccountID |-> <<>>,
                type |-> "ACCOUNT", balance |-> <<5>>, accountId |-> <<>>,
                AccountId |-> <<>>]
  /\ Val(data).accounts[1].balance = Some([amount |-> Some(<<"str", 5>>)])
  /\ Val(data).accounts[2].balance = Some([amount |-> Some(<<"str", 0>>)])

\* C19: when no balance request of a poll failed, every account of the
\* poll's snapshot has a balance.
C19_EveryAccountGetsBalance ==
  (/\ last.poll = "ok"
   /\ last.failed = {}
   /\ Val(data).balance_fetch_errors = <<>>)
    => \A k \in 1..Len(Val(data).accounts) : IsSome(Val(data).accounts[k].balance)

\* C20: the accounts of a poll's snapshot are, in the order of the list,
\* the fetched accounts whose identifier (accountNumber, else
\* creditCardAccountID) is in the selection, which is the one of the entry
\* options when they have one and the one of the entry data otherwise; all
\* fetched accounts when the selection is empty.
C20_Identifier(acc) ==
  IF acc.accountNumber # "absent" THEN acc.accountNumber
  ELSE IF acc.creditCardAccountID # <<>> THEN acc.creditCardAccountID[1]
  ELSE IF acc.accountId # <<>> THEN acc.accountId[1]
  ELSE IF acc.AccountId # <<>> THEN acc.AccountId[1]
  ELSE "none"

C26_Fields(acc) ==
  <<acc.accountNumber, acc.creditCardAccountID, acc.accountId, acc.AccountId>>

C26_EntityFindsItsAccount ==
  IsSome(data) =>
    /\ \A i \in 1..Len(Val(data).accounts) :
         LET acc == Val(data).accounts[i]
             expected ==
               IF acc.accountNumber # "absent" THEN acc.accountNumber
               ELSE IF acc.creditCardAccountID # <<>> THEN acc.creditCardAccountID[1]
               ELSE IF acc.accountId # <<>> THEN acc.accountId[1]
               ELSE IF acc.AccountId # <<>> THEN acc.AccountId[1]
               ELSE <<"account_0", "account_1", "account_2", "account_3">>[i]
         IN Cardinality({e \in sensors :
                           C26_Fields(e.account_data) = C26_Fields(acc)}) = 1
            /\ \A e \in sensors :
                  C26_Fields(e.account_data) = C26_Fields(acc)
                    => e.account_number = expected
    /\ \A e \in sensors :
         LET found == FindAccount(Val(data).accounts, e.account_number)
             shown == FindAccountForAttributes(Val(data).accounts, e.account_number)
         IN /\ found # <<>>
            /\ C26_Fields(found[1]) = C26_Fields(e.account_data)
            /\ shown # <<>>
            /\ C26_Fields(shown[1]) = C26_Fields(e.account_data)

\* C21: a step of a poll that does not return a snapshot (the poll is
\* refused by the backoff, fails on a rate limit, an API error or an
\* unexpected exception, is cancelled while it awaits a response, or is
\* still under way) leaves the published snapshot, with its accounts,
\* balances, last_update, balance_fetch_partial and balance_fetch_errors,
\* exactly as it was.
C21_FailedPollKeepsSnapshot ==
  [][(/\ last'.act \in {"PollStart", "PollAccountsReturn", "PollBalanceReturn",
                        "PollCancel"}
      /\ last'.poll # "ok")
       => data' = data]_vars

C21_Witness ==
  /\ last.act = "PollCancel"
  /\ last.poll = "cancelled"
  /\ IsSome(data)
  /\ Val(data).balance_fetch_partial
  /\ now > Val(data).last_update

\* C22: async_refresh_account_balances called with a non-empty list on a
\* coordinator without snapshot asks for one full refresh and issues no
\* balance request.
C22_NoSnapshotFallsBack ==
  (/\ last.act = "RefreshStart"
   /\ last.targeted # << <<>> >>
   /\ IsNone(data))
    => (/\ xfer.pc = "await_refresh"
        /\ xfer.fullRequests = 1
        /\ IsNone(last.sent)
        /\ IsNone(last.raised))

\* C23: a targeted refresh of a non-empty list that completes against a
\* snapshot leaves a snapshot marked balance_fetch_partial, whether or not
\* a balance was merged.
C23_TargetedMarksPartial ==
  (/\ last.act = "TransferBalanceReturn"
   /\ last.ended
   /\ IsNone(last.raised)
   /\ ~last.refreshRaised)
    => Val(data).balance_fetch_partial

\* C24: the step that completes a targeted refresh keeps the accounts of
\* the snapshot, their order and every field of theirs but balance, changes
\* the balance of no account that was not requested or whose request
\* failed, and gives the accounts requested and answered the balance of the
\* answer.
C24_TargetedChangesRequestedOnly ==
  [][(/\ last'.act = "TransferBalanceReturn"
      /\ last'.ended
      /\ IsNone(last'.raised)
      /\ ~last'.refreshRaised)
       => LET old == Val(data).accounts
              new == Val(data').accounts
              requested == {xfer.numbers[j] : j \in 1..Len(xfer.numbers)}
              returned == requested \ last'.failed
          IN /\ Len(new) = Len(old)
             /\ \A i \in 1..Len(old) :
                  /\ [new[i] EXCEPT !.balance = <<>>] = [old[i] EXCEPT !.balance = <<>>]
                  /\ old[i].accountNumber \notin returned
                       => new[i].balance = old[i].balance
                  /\ old[i].accountNumber \in returned
                       => new[i].balance = <<[amount |-> <<<<"str", upstream>>>>]>>]_vars

C24_Witness ==
  /\ last.act = "TransferBalanceReturn"
  /\ last.ended
  /\ last.failed = {"A1"}
  /\ Val(data).accounts[1].balance = <<[amount |-> <<<<"str", 0>>>>]>>
  /\ Val(data).accounts[2].balance = <<[amount |-> <<<<"str", 1>>>>]>>
  /\ Val(data).accounts[3].balance = <<[amount |-> <<<<"str", 7>>>>]>>

\* C25: last_update of the snapshot never decreases; a poll that returns a
\* snapshot and a targeted refresh that merged a balance set it to the
\* time of the step, and every other step (a failed poll, a targeted
\* refresh that merged nothing) leaves it as it was.
C25_LastUpdateFollowsMerges ==
  [][IsSome(data') =>
       LET merged == /\ last'.act = "TransferBalanceReturn"
                     /\ last'.ended
                     /\ IsNone(last'.raised)
                     /\ ~last'.refreshRaised
                     /\ \E i \in 1..Len(Val(data).accounts) :
                          /\ Val(data).accounts[i].accountNumber
                               \in {xfer.numbers[j] : j \in 1..Len(xfer.numbers)}
                          /\ Val(data).accounts[i].accountNumber \notin last'.failed
       IN /\ IsSome(data) => Val(data').last_update >= Val(data).last_update
          /\ (last'.poll = "ok" \/ merged) => Val(data').last_update = now'
          /\ (last'.poll # "ok" /\ ~merged)
               => (IsSome(data) /\ Val(data').last_update = Val(data).last_update)]_vars

C25_Witness ==
  /\ last.act = "TransferBalanceReturn"
  /\ last.ended
  /\ last.failed = {"A2"}
  /\ now = 2
  /\ Val(data).last_update = 2
  /\ upstream = 1

\* C27: every request the client sends follows a call of
\* async_ensure_token_valid of its own and carries, as bearer, the token
\* valid when that call returned: an operation has made as many calls as
\* it has sent requests, or one more while a call is awaited or after a
\* call raised, and n balance requests mean n calls.
C27_TokenBeforeEveryRequest ==
  /\ Len(http.wire) = Len(http.acquired)
  /\ \A i \in 1..Len(http.wire) :
       http.wire[i].Authorization = <<"Bearer ", http.acquired[i]>>
  /\ http.pc = "auth" => http.calls = Len(http.wire) + 1
  /\ http.pc = "wire" => http.calls = Len(http.wire)
  /\ (http.pc = "idle" /\ http.outcome # <<>>)
       => http.calls = Len(http.wire)
            + (IF last.act = "ClientTokenReturn" THEN 1 ELSE 0)
  /\ (/\ http.pc = "idle" /\ http.op = "get_account_balances"
      /\ http.outcome # <<>> /\ http.outcome[1].ok)
       => (http.calls = Len(http.numbers) /\ Len(http.wire) = Len(http.numbers))

C27_Witness ==
  /\ http.pc = "idle"
  /\ http.op = "get_account_balances"
  /\ http.outcome # <<>> /\ http.outcome[1].ok
  /\ http.acquired = <<1, 2>>

C30_RoundsHalfUp ==
  (last.act = "Validate" /\ last.outputs[1].ok)
    => LET s == last.call[1].amount
           n == Len(s)
       IN (n >= 5 /\ s[n - 3] = "." /\ s[n] = "5")
            => last.outputs[1].amount
                 = <<IntOf(SubSeq(s, 1, n - 4)) * 100 + IntOf(SubSeq(s, n - 2, n - 1)) + 1>>

\* Helpers of C31.
C31_HasCheckDigit(n) ==
  LET remainder == (5 * DigitVal(n[1]) + 4 * DigitVal(n[2]) + 3 * DigitVal(n[3])
                      + 2 * DigitVal(n[4]) + 7 * DigitVal(n[5]) + 6 * DigitVal(n[6])
                      + 5 * DigitVal(n[7]) + 4 * DigitVal(n[8]) + 3 * DigitVal(n[9])
                      + 2 * DigitVal(n[10])) % 11
  IN DigitVal(n[11]) = (IF remainder < 2 THEN 0 ELSE 11 - remainder)
C31_OneDigitFromValid(n) ==
  \E p \in 1..11 : \E d \in Digits \ {n[p]} : C31_HasCheckDigit([n EXCEPT ![p] = d])
C31_IsElevenDigits(account_number) ==
  /\ account_number.isStr
  /\ Len(account_number.text) = 11
  /\ \A i \in 1..11 : account_number.text[i] \in Digits
\* C31: validate_norwegian_account_number accepts every eleven-digit text
\* whose last digit is the modulo-11 check digit of the first ten (weights
\* 5,4,3,2,7,6,5,4,3,2; 0 when the remainder is below 2, else 11 minus the
\* remainder), and rejects every text that differs in exactly one digit
\* from such a number.
C31_Mod11DetectsSingleDigitErrors ==
  (last.act = "ValidateAccountNumber" /\ C31_IsElevenDigits(last.call[1].account_number))
    => LET n == last.call[1].account_number.text
       IN /\ C31_HasCheckDigit(n) => last.outputs[1]
          /\ C31_OneDigitFromValid(n) => ~last.outputs[1]

\* C32: convert_currency returns the amount unchanged between a currency of
\* the rate table and itself, raises the unsupported-currency error when
\* either code is missing from the table (also for one missing code given
\* twice), and otherwise returns amount / rate[from] * rate[to] rounded to
\* the nearest hundredth; 100 USD are 1000.00 NOK.
C32_ConvertCurrencyContract ==
  last.act = "Convert"
    => LET c == last.call[1]
           out == last.outputs[1]
           known == {"NOK", "SEK", "DKK", "USD", "EUR", "GBP"}
           rate == [NOK |-> 1000, SEK |-> 1000, DKK |-> 1000,
                    USD |-> 100, EUR |-> 83, GBP |-> 71]
       IN /\ (c.from_currency \notin known \/ c.to_currency \notin known)
               <=> out.raises
          /\ out.raises => out.message[1] \in {"Unsupported source currency: ",
                                               "Unsupported target currency: "}
          /\ (~out.raises /\ c.from_currency = c.to_currency) => out.value = c.amount
          /\ (~out.raises /\ c.from_currency # c.to_currency)
               => LET exact == c.amount * rate[c.to_currency]
                      scaled == out.value * rate[c.from_currency]
                      diff == IF exact >= scaled THEN exact - scaled ELSE scaled - exact
                  IN 2 * diff <= rate[c.from_currency]
          /\ (c.amount = 10000 /\ c.from_currency = "USD" /\ c.to_currency = "NOK")
               => out.value = 100000

\* C32 witness: 100 USD converted to NOK.
C32_Witness ==
  /\ last.act = "Convert"
  /\ last.call[1] = [kind |-> "convert_currency", amount |-> 10000,
                     from_currency |-> "USD", to_currency |-> "NOK"]
  /\ last.outputs[1].value = 100000

\* C39: every amount validate_amount or
\* validate_amount_with_currency_conversion returns as valid is above zero
\* after the rounding to two decimals.
C39_ValidAmountIsPositive ==
  (last.act \in {"Validate", "ValidateConverted"} /\ last.outputs[1].ok)
    => Val(last.outputs[1].amount) > 0

\* Helpers of C36.
C36_BalanceOrTransferAnswered429 ==
  /\ last'.act \in {"PollBalanceReturn", "TransferBalanceReturn", "TransferReturn"}
  /\ IsSome(last'.resp)
  /\ IsRateLimitAnswer(AnswerOf(last'))
\* C36: a step leaves a backoff deadline that was not there before only
\* when it is the accounts fetch of a poll answered 429. A 429 answered to a
\* balance request of a poll or of a targeted refresh, or to a transfer
\* request, leaves rate_limit_backoff_until as it was; when that answer is
\* the last of a poll, the poll returns and, as every returning poll does,
\* clears the deadline that had expired before it started.
C36_OnlyAccountsFetchSetsBackoff ==
  [][/\ C36_BalanceOrTransferAnswered429
        => IF last'.act = "PollBalanceReturn" /\ last'.poll = "ok"
             THEN rate_limit_backoff_until' \in {rate_limit_backoff_until, None}
             ELSE rate_limit_backoff_until' = rate_limit_backoff_until
     /\ (IsSome(rate_limit_backoff_until')
           /\ rate_limit_backoff_until' # rate_limit_backoff_until)
        => (/\ last'.act = "PollAccountsReturn"
            /\ IsRateLimitAnswer(AnswerOf(last')))]_vars

\* C36 witness: a 429 was answered to a balance request or to a transfer
\* request while a backoff deadline was set.
C36_Witness ==
  /\ last.act \in {"PollBalanceReturn", "TransferBalanceReturn", "TransferReturn"}
  /\ IsSome(last.resp)
  /\ IsRateLimitAnswer(AnswerOf(last))
  /\ IsSome(rate_limit_backoff_until)

\* C37: a poll attempted outside a backoff window leaves oauth_session and
\* client set and reaches the accounts request of get_accounts.
C37_PollReachesGetAccounts ==
  (last.act = "PollStart" /\ last.poll # "backoff")
    => /\ IsSome(oauth_session)
       /\ IsSome(client)
       /\ last.sent = Some(HttpRequest("accounts", "poll"))

\* Helpers of C35.
C35_HasAmount(acc) == IsSome(acc.balance) /\ IsSome(Val(acc.balance).amount)
C35_Version(acc) == Val(Val(acc.balance).amount)[2]
\* C35: a poll that returns never replaces a balance of the snapshot with
\* one fetched earlier: for every account number, the balance the returning
\* poll publishes is no older than the balance the snapshot held (balances
\* of the upstream are numbered by the transfers made before the fetch).
C35_NoLostUpdate ==
  [][(last'.poll = "ok" /\ IsSome(data) /\ IsSome(data'))
       => \A i \in 1..Len(Val(data).accounts) : \A k \in 1..Len(Val(data').accounts) :
            LET old == Val(data).accounts[i]
                new == Val(data').accounts[k]
            IN (/\ old.accountNumber = new.accountNumber
                /\ C35_HasAmount(old)
                /\ C35_HasAmount(new))
                 => C35_Version(new) >= C35_Version(old)]_vars

\* Helpers of C38.
C38_KnownBalance(acc) == IsSome(acc.balance) /\ IsSome(Val(acc.balance).amount)
\* C38: the step that completes a targeted refresh leaves every account
\* that had a balance with a non-null amount with a balance with a non-null
\* amount, also when a balance answer had no accountBalance.
C38_TargetedKeepsKnownBalances ==
  [][(last'.act = "TransferBalanceReturn" /\ IsSome(data) /\ IsSome(data'))
       => \A i \in 1..Len(Val(data).accounts) :
            C38_KnownBalance(Val(data).accounts[i])
              => C38_KnownBalance(Val(data').accounts[i])]_vars

\* Helpers of C33.
C33_BackoffExpired ==
  IsSome(rate_limit_backoff_until) /\ now >= Val(rate_limit_backoff_until)
C33_PollReturned ==
  /\ last.poll = "ok"
  /\ IsSome(data)
  /\ IsNone(rate_limit_backoff_until)
  /\ poll.pc = "idle"
\* C33: an expired backoff does not hold the coordinator: a poll attempt
\* made once the clock has reached rate_limit_backoff_until sends the
\* accounts request; a poll that returns leaves a snapshot, no backoff
\* deadline and the coordinator idle; and, the timer firing, the upstream
\* answering 200 again and again and every later window ending, an expired
\* backoff leads to a poll that returns.
C33_BackoffNotAbsorbing ==
  /\ []((last.act = "PollStart" /\ C33_BackoffExpired)
          => last.sent = Some(HttpRequest("accounts", "poll")))
  /\ [](last.poll = "ok" => C33_PollReturned)
  /\ ([]<>(~BackoffActive)) => (C33_BackoffExpired ~> C33_PollReturned)

\* C33 witness: a poll returned on a coordinator whose earlier poll had been
\* rate limited (the announced window is on record) and whose clock has
\* passed that window.
C33_Witness ==
  /\ C33_PollReturned
  /\ IsSome(quietUntil)
  /\ now >= Val(quietUntil)

\* C34: base availability is false without a snapshot; true while the
\* snapshot's last_update is less than three hours old, whatever the latest
\* poll did; and the coordinator's last_update_success once the snapshot
\* is three hours old or older.
C34_BaseAvailability ==
  last.act = "ReadAvailable"
    => LET available == last.outputs[1]
           success == last.call[1].last_update_success
       IN /\ IsNone(data) => ~available
          /\ (IsSome(data) /\ now - Val(data).last_update < 3 * 3600) => available
          /\ (IsSome(data) /\ now - Val(data).last_update >= 3 * 3600)
               => available = success

\* C34 witness: available read as false on a snapshot exactly three hours
\* old, after a failed latest poll.
C34_Witness ==
  /\ last.act = "ReadAvailable"
  /\ IsSome(data)
  /\ now - Val(data).last_update = 3 * 3600
  /\ ~last.call[1].last_update_success
  /\ ~last.outputs[1]

\* C40: each transfer service is registered exactly when the registry
\* stores at least one entry, never more than once, and a step removes a
\* service only when it is an unload that leaves the registry empty.
C40_ServicesFollowRegistry ==
  /\ [](\A s \in Services :
          /\ (hass.services[s] > 0) <=> (hass.data # {})
          /\ hass.services[s] <= 1)
  /\ [][\A s \in Services :
          hass'.services[s] < hass.services[s]
            => (/\ last'.act \in {"UnloadEntry", "ReloadEntry"}
                /\ hass.data = {last'.call[1].entry}
                /\ hass'.data = {})]_vars

\* C40 witness: an entry was unloaded, another is still stored, and both
\* services are registered.
C40_Witness ==
  /\ last.act = "UnloadEntry"
  /\ hass.state[last.call[1].entry] = "not_loaded"
  /\ hass.data # {}
  /\ \A s \in Services : hass.services[s] = 1

====
